---- MODULE Spec2Model ----
(***************************************************************************)
(* Polyphonic voice pool of the AudioEngine (src/services/AudioEngine.ts). *)
(*                                                                         *)
(* Units.  Times are integers in milliseconds (audioContext.currentTime    *)
(* and the setTimeout clock are one clock, currentTime).  Levels and       *)
(* amounts are percent.  Frequencies are kept in the log domain, in        *)
(* hundredths of a cent relative to 440 Hz: f = 440 * 2^(c/120000), so a   *)
(* product of frequencies and powers of two in the source is a sum here,   *)
(* and two frequencies are equal exactly when their values here are equal. *)
(***************************************************************************)
EXTENDS Integers, Sequences, FiniteSets, TLC

(* ----------------------------- bounds ---------------------------------- *)

\* Size of the voice pool.  The source fixes it at 8 (AudioEngine.ts line 26);
\* the pool is built by a loop over this limit and nothing else depends on
\* the number, so it is scaled down here to keep the state space finite.
MAX_POLYPHONY == 2

\* The clock stops at MaxClock (milliseconds).
MaxClock == 200

\* Number of setTimeout handles the voices can hold at once, all together.
MaxTimeouts == 2

\* The clock of the specifications that follow one round of cleanup
\* callbacks stops here.
ShortClock == 100
\* The MIDI input ports the system may have.
MaxPorts == 2

(* ------------------------- program constants --------------------------- *)

\* window.setTimeout(..., (totalReleaseTime + 0.1) * 1000)
CleanupGuardMs == 100
\* const stopTime = now + totalReleaseTime + 0.05
StopGuardMs == 50
\* note: null
NoNote == -1
\* activeInput: null
NoInput == 0
\* The ids of the MIDI input ports.
Ports == 1 .. MaxPorts
\* constants file, lines 3-6: the MIDI status bytes, channel masked out.
MIDI_NOTE_ON == 144
MIDI_NOTE_OFF == 128
MIDI_PITCH_BEND == 224
MIDI_CC == 176

\* The context's sample rate and the lowest cutoff, in Hz (line 344).
SampleRate == 48000
MinCutoffHz == 20
\* findVoiceForNoteOn returning null
NoVoice == -1

Voices == 0 .. (MAX_POLYPHONY - 1)
\* Notes offered to noteOn / noteOff: one more than there are voices, so
\* that the pool can be exhausted by distinct pitches.
Notes == 0 .. MAX_POLYPHONY

\* The clock is observed at the granularity of the shortest delay a cleanup
\* callback can have.
TickMs == CleanupGuardMs

Max(a, b) == IF a >= b THEN a ELSE b
Min(a, b) == IF a <= b THEN a ELSE b

(* --------------------------- parameters -------------------------------- *)

\* INITIAL_SYNTH_PARAMS (constants file): three oscillator descriptors, the
\* third one off; noise off; LFO off.
INITIAL_SYNTH_PARAMS ==
  [ masterVolume |-> 70,
    oscillators |-> << [id |-> "osc1", waveform |-> "sawtooth", octave |-> 0,
                        tune |-> 0, level |-> 80, enabled |-> TRUE],
                       [id |-> "osc2", waveform |-> "square", octave |-> 0,
                        tune |-> 1, level |-> 60, enabled |-> TRUE],
                       [id |-> "osc3", waveform |-> "sawtooth", octave |-> -1,
                        tune |-> 0, level |-> 0, enabled |-> FALSE] >>,
    noise |-> [type |-> "white", level |-> 0, enabled |-> FALSE],
    filter |-> [cutoff |-> 5000, resonance |-> 1, envelopeAmount |-> 50,
                keyboardTracking |-> 50, type |-> "lowpass"],
    ampEnvelope |-> [attack |-> 10, decay |-> 300, sustain |-> 80, release |-> 500],
    filterEnvelope |-> [attack |-> 50, decay |-> 200, sustain |-> 50, release |-> 400],
    lfo |-> [waveform |-> "triangle", rate |-> 5, pitchAmount |-> 0,
             filterAmount |-> 0, enabled |-> FALSE] ]

\* A snapshot that differs from p in the two release times only.
WithRelease(p, amp, flt) ==
  [p EXCEPT !.ampEnvelope.release = amp, !.filterEnvelope.release = flt]

\* A snapshot that differs from p in the oscillator descriptors only.
WithOscillators(p, oscs) == [p EXCEPT !.oscillators = oscs]

\* A snapshot that differs from p in the noise descriptor only.
WithNoise(p, on) == [p EXCEPT !.noise.enabled = on, !.noise.level = IF on THEN 30 ELSE 0]

\* A snapshot that differs from p in the filter type and resonance only.
WithFilter(p, type, q) == [p EXCEPT !.filter.type = type, !.filter.resonance = q]

\* A snapshot that differs from p in the cutoff (Hz), the keyboard tracking
\* and the envelope amount (both in percent) of the filter only.
WithCutoff(p, cutoff, tracking, amount) ==
  [p EXCEPT !.filter.cutoff = cutoff, !.filter.keyboardTracking = tracking,
            !.filter.envelopeAmount = amount]

\* A snapshot that differs from p in the LFO descriptor only.
WithLfo(p, on, pitch, flt) ==
  [p EXCEPT !.lfo.enabled = on, !.lfo.pitchAmount = pitch, !.lfo.filterAmount = flt]

(* ----------------------------- state ----------------------------------- *)

VARIABLES
  voices,               \* this.voices: slot -> PolyVoice
  currentParams,        \* this.currentParams
  pitchBendMultiplier,  \* this.pitchBendMultiplier, in hundredths of a cent
  lfo,                  \* lfoOscNode, lfoGainPitchNode, lfoGainFilterNode
  timeouts,             \* the window's pending setTimeout callbacks
  currentTime,          \* the clock
  contextState,         \* audioContext.state
  last,                 \* history: outcome of the last operation that used the pool
  run,                  \* history: the notes of a run of noteOn calls
  midiAccess,           \* MidiService.midiAccess is not null
  inputs,               \* MidiService.inputs: the ids of the ports, in order
  activeInput,          \* MidiService.activeInput: a port id, or NoInput
  onmidimessage,        \* the ports whose onmidimessage is the service's handler
  connected             \* the system's MIDI input ports, in the order of the map

\* The fields of the MidiService and the ports it listens to.
midiVars == << midiAccess, inputs, activeInput, onmidimessage, connected >>

vars == << voices, currentParams, pitchBendMultiplier, lfo, timeouts,
           currentTime, contextState, last, run, midiVars >>

\* The voice the constructor pushes for every slot.
NewVoice(i) ==
  [ id |-> i, note |-> NoNote, velocity |-> 0, isActive |-> FALSE,
    isReleasing |-> FALSE, startTime |-> 0, oscillators |-> << >>,
    noiseNode |-> FALSE, noiseGainNode |-> FALSE, noiseStop |-> << >>,
    filterType |-> "lowpass", filterQ |-> 1, lfoFilter |-> FALSE,
    droppedLfoPitch |-> FALSE, droppedConnected |-> FALSE,
    vcaGain |-> << >>, filterFrequency |-> << >>,
    scheduledStopTimeouts |-> << >> ]

\* No LFO nodes.
NoLfo == [osc |-> FALSE, type |-> "none", rate |-> 0, setAt |-> 0,
          gainPitch |-> FALSE, gainFilter |-> FALSE]

\* The value of run once the run is no longer a run of noteOn calls on
\* pairwise distinct pitches.
Impure == << NoNote >>

IsSounding(v) == v.isActive \/ v.isReleasing
IsFree(v) == ~v.isActive /\ ~v.isReleasing

SeqToSet(s) == { s[k] : k \in DOMAIN s }

(* ------------------ frequency, in hundredths of a cent ----------------- *)

\* midiNoteToFrequency: 440 * 2^((note - 69) / 12)
midiNoteToFrequency(note) == (note - 69) * 10000

\* baseFrequency * 2^(tune / 1200) for descriptor oscParam; tune is in
\* hundredths of a cent here
tunedFrequency(note, oscParam) ==
  midiNoteToFrequency(note + oscParam.octave * 12) + oscParam.tune

\* Math.pow(2, (bendValue * 2) / 12), bendValue in whole units -1, 0, 1
BendMultiplier(bendValue) == bendValue * 20000

(* ----------------------------- AudioParam ------------------------------ *)

\* The automation timeline of a parameter (vcaNode.gain, filterNode.frequency)
\* is the sequence, in time order, of its events that have not elapsed.
\* Gains are in units of 1/12700, filter frequencies in hundredths of a Hz,
\* times in ms.

\* Variant: nothing is cancelled.
cancelScheduledValues_None(param, t) == param

\* param.cancelScheduledValues(t): every event at or after t is removed.
cancelScheduledValues(param, t) == SelectSeq(param, LAMBDA e : e.time < t)

\* An event is inserted after the events that are not later than it.
InsertEvent(param, e) ==
  SelectSeq(param, LAMBDA x : x.time <= e.time) \o << e >>
    \o SelectSeq(param, LAMBDA x : x.time > e.time)

\* param.setValueAtTime(value, t)
setValueAtTime(param, value, t) ==
  InsertEvent(param, [kind |-> "set", value |-> value, time |-> t])

\* param.setValueAtTime(param.value, t): the parameter is pinned at the
\* value it has at the time of the call (the value field is not used).
holdValueAtTime(param, t) ==
  InsertEvent(param, [kind |-> "hold", value |-> 0, time |-> t])

\* param.linearRampToValueAtTime(value, t)
linearRampToValueAtTime(param, value, t) ==
  InsertEvent(param, [kind |-> "ramp", value |-> value, time |-> t])

\* The events of a timeline that have not elapsed at clock value now.
Pending(param, now) == SelectSeq(param, LAMBDA e : e.time >= now)

\* Variant: attack and decay times are used as given, with no 1 ms floor.
applyEnvelope_NoFloor(param, envelope, baseValue, peakValue, sustainProportion, now) ==
  LET p1 == cancelScheduledValues(param, now)
      p2 == setValueAtTime(p1, baseValue, now)
      p3 == linearRampToValueAtTime(p2, peakValue, now + envelope.attack)
  IN linearRampToValueAtTime(p3, (sustainProportion * peakValue) \div 100,
       now + envelope.attack + envelope.decay)

\* applyEnvelope, lines 190-204.  sustainProportion is in percent.
applyEnvelope(param, envelope, baseValue, peakValue, sustainProportion, now) ==
  LET p1 == cancelScheduledValues(param, now)
      p2 == setValueAtTime(p1, baseValue, now)
      p3 == linearRampToValueAtTime(p2, peakValue, now + Max(1, envelope.attack))
  IN linearRampToValueAtTime(p3, (sustainProportion * peakValue) \div 100,
       now + Max(1, envelope.attack) + Max(1, envelope.decay))

\* releaseEnvelope, lines 206-213.
releaseEnvelope(param, releaseTime, targetValue, now) ==
  LET p1 == cancelScheduledValues(param, now)
      p2 == holdValueAtTime(p1, now)
  IN linearRampToValueAtTime(p2, targetValue, now + Max(1, releaseTime))

\* Math.max(20, Math.min(sampleRate / 2, f)), f in hundredths of a Hz.
ClampCutoff(f) == Max(MinCutoffHz * 100, Min((SampleRate \div 2) * 100, f))

\* cutoff + noteDelta * (keyboardTracking * 20), clamped; keyboardTracking
\* is in percent.
TrackedCutoff(params, note) ==
  ClampCutoff(params.filter.cutoff * 100
              + (note - 60) * params.filter.keyboardTracking * 20)

\* JavaScript truthiness of voice.note: null and 0 are falsy.
Truthy(note) == note # NoNote /\ note # 0

(* ------------------------------- LFO ----------------------------------- *)

\* voice.oscillators = [] (lines 295 and 434): the components leave the
\* voice.  A connection from the pitch tap to the detune of a component is
\* not undone by that; droppedLfoPitch records that the tap is connected to
\* the detune of a component the voice no longer holds.
DropOscillators(voice) ==
  [voice EXCEPT
     !.droppedLfoPitch =
        @ \/ \E k \in DOMAIN voice.oscillators : voice.oscillators[k].lfoPitch,
     !.oscillators = << >>]

\* connectLFOToVoice: the pitch tap to every oscillator's detune, the filter
\* tap to the filter frequency, each only when its depth is > 0.
connectLFOToVoice(voice, params, l) ==
  IF ~params.lfo.enabled THEN voice
  ELSE [voice EXCEPT
          !.oscillators = [k \in DOMAIN voice.oscillators |->
              [voice.oscillators[k] EXCEPT !.lfoPitch =
                  @ \/ (l.gainPitch /\ params.lfo.pitchAmount > 0)]],
          !.lfoFilter = @ \/ (l.gainFilter /\ params.lfo.filterAmount > 0)]

\* disconnectLFOFromVoice: each tap that exists is disconnected from the
\* oscillators the voice holds now and from its filter frequency.
disconnectLFOFromVoice(voice, l) ==
  [voice EXCEPT
     !.oscillators = [k \in DOMAIN voice.oscillators |->
         [voice.oscillators[k] EXCEPT !.lfoPitch = @ /\ ~l.gainPitch]],
     !.lfoFilter = @ /\ ~l.gainFilter]

\* Variant: only the generator is stopped and dropped; the taps stay.
teardownLFO_OscOnly(vs, l) ==
  [ lfo |-> [l EXCEPT !.osc = FALSE], voices |-> vs ]

\* teardownLFO: the generator and both taps are disconnected from everything
\* and dropped; the per-voice disconnects that follow find no tap.
teardownLFO(vs, l) ==
  [ lfo |-> NoLfo,
    voices |-> [i \in DOMAIN vs |->
                  disconnectLFOFromVoice(
                    [vs[i] EXCEPT
                       !.oscillators = [k \in DOMAIN vs[i].oscillators |->
                           [vs[i].oscillators[k] EXCEPT !.lfoPitch = FALSE]],
                       !.droppedLfoPitch = FALSE,
                       !.lfoFilter = FALSE],
                    NoLfo)] ]

\* Variant: the new taps are attached to the releasing voices as well.
setupLFO_AnySounding(lfoParams, vs, l, params, now) ==
  LET down == teardownLFO(vs, l)
      built == [osc |-> TRUE, type |-> lfoParams.waveform, rate |-> lfoParams.rate,
                setAt |-> now, gainPitch |-> TRUE, gainFilter |-> TRUE]
  IN IF ~lfoParams.enabled THEN down
     ELSE [ lfo |-> built,
            voices |-> [i \in DOMAIN vs |->
                IF down.voices[i].isActive \/ down.voices[i].isReleasing
                THEN connectLFOToVoice(down.voices[i], params, built)
                ELSE down.voices[i]] ]

\* setupLFO: tear down, then (when enabled) build generator and taps and
\* attach them to every voice that is active and not releasing.
setupLFO(lfoParams, vs, l, params, now) ==
  LET down == teardownLFO(vs, l)
      built == [osc |-> TRUE, type |-> lfoParams.waveform, rate |-> lfoParams.rate,
                setAt |-> now, gainPitch |-> TRUE, gainFilter |-> TRUE]
  IN IF ~lfoParams.enabled THEN down
     ELSE [ lfo |-> built,
            voices |-> [i \in DOMAIN vs |->
                IF down.voices[i].isActive /\ ~down.voices[i].isReleasing
                THEN connectLFOToVoice(down.voices[i], params, built)
                ELSE down.voices[i]] ]

\* lfoOscNode.frequency.value as read at `now`: the rate scheduled by
\* setValueAtTime once the render thread has passed that time; before that
\* the read may still give the node's default (stale = TRUE).
LfoFrequencyValue(l, now, stale) ==
  IF now > l.setAt \/ ~stale THEN l.rate ELSE 440

\* applyParamsToEngineGlobally (this.currentParams is already `params`).
applyParamsToEngineGlobally(params, vs, l, now, stale) ==
  IF params.lfo.enabled
  THEN IF ~l.osc \/ l.type # params.lfo.waveform
          \/ LfoFrequencyValue(l, now, stale) # params.lfo.rate
       THEN setupLFO(params.lfo, vs, l, params, now)
       ELSE [lfo |-> l, voices |-> vs]
  ELSE IF l.osc THEN teardownLFO(vs, l)
       ELSE [lfo |-> l, voices |-> vs]

(* --------------------------- timeouts ---------------------------------- *)

\* A setTimeout handle stands for the callback it was returned for: the
\* voice and note its closure captured, and the time it is due.  `timeouts`
\* holds the callbacks that are pending in the window; callbacks with the
\* same voice, note and due time act alike and are kept as one.
\* `first` records whether the noteOff that scheduled it put the voice into
\* release (the voice was active) or found it releasing already.
Timeout(i, note, due, first) ==
  [voice |-> i, note |-> note, due |-> due, first |-> first]

\* Variant: clearing a handle cancels nothing.
ClearTimeouts_None(tm, handles) == tm

\* clearTimeout on every handle of the list.
ClearTimeouts(tm, handles) == tm \ SeqToSet(handles)

\* The number of handles the voices hold.
RECURSIVE HandleCount(_, _)
HandleCount(vs, S) ==
  IF S = {} THEN 0
  ELSE LET i == CHOOSE j \in S : TRUE
       IN Len(vs[i].scheduledStopTimeouts) + HandleCount(vs, S \ {i})

(* ------------------------- calls on the backend ------------------------ *)

\* A call a handler makes on a node of the audio graph.  The node is named by
\* its kind ("osc", "gain": oscNode and gainNode of an oscillator component;
\* "noise", "noiseGain"; "filter", "vca": the voice's own nodes; "lfoPitch",
\* "lfoFilter": the taps) and, for a component, its position k in
\* voice.oscillators.  gen is "old" for a component the voice held when the
\* handler was entered, "new" for one the handler creates, "voice" for the
\* voice's own nodes and "lfo" for the taps.  The calls:
\* "create", "connect" (the node is the source; to is the destination),
\* "schedule" (an automation method of one of the node's parameters), "start",
\* "stop", "disconnect" (of the node's outputs), "drop" (the voice forgets the
\* node) and "hold" (the voice keeps the node).
Call(call, kind, k, gen, to) ==
  [call |-> call, kind |-> kind, k |-> k, gen |-> gen, to |-> to]

\* A call the backend answers by throwing.
Fault(call, kind, k) == [call |-> call, kind |-> kind, k |-> k]

\* The backend throws nowhere.
NoFault == Fault("none", "none", 0)

Throws(c, fault) ==
  c.call = fault.call /\ c.kind = fault.kind /\ c.k = fault.k

\* try { block } catch (e) {}: the calls made before the one that throws.
TryBlock(block, fault) ==
  LET hits == { j \in DOMAIN block : Throws(block[j], fault) }
  IN IF hits = {} THEN block
     ELSE SubSeq(block, 1, (CHOOSE j \in hits : \A h \in hits : j <= h) - 1)

\* stopVoice, lines 428-432: the try block of the component at position k.
OscStopBlock(k, hardStop) ==
  (IF hardStop THEN << Call("stop", "osc", k, "old", "") >> ELSE << >>)
    \o << Call("disconnect", "osc", k, "old", ""),
          Call("disconnect", "gain", k, "old", "") >>

\* stopVoice, lines 427-433: the loop over the first n components.
RECURSIVE OscStopCalls(_, _, _)
OscStopCalls(n, hardStop, fault) ==
  IF n = 0 THEN << >>
  ELSE OscStopCalls(n - 1, hardStop, fault)
         \o TryBlock(OscStopBlock(n, hardStop), fault)

\* stopVoice, lines 436-446: the noise source and its gain.
NoiseStopCalls(voice, hardStop, fault) ==
  (IF voice.noiseNode
   THEN TryBlock((IF hardStop THEN << Call("stop", "noise", 0, "old", "") >>
                  ELSE << >>)
                 \o << Call("disconnect", "noise", 0, "old", "") >>, fault)
        \o << Call("drop", "noise", 0, "old", "") >>
   ELSE << >>)
  \o
  (IF voice.noiseGainNode
   THEN TryBlock(<< Call("disconnect", "noiseGain", 0, "old", "") >>, fault)
        \o << Call("drop", "noiseGain", 0, "old", "") >>
   ELSE << >>)

\* stopVoice, lines 427-462: the calls on the voice's components and, on a
\* hard stop, on its gain and filter frequency, in the order they are made.
stopVoiceCalls(voice, hardStop, fault) ==
  OscStopCalls(Len(voice.oscillators), hardStop, fault)
    \o [k \in DOMAIN voice.oscillators |-> Call("drop", "osc", k, "old", "")]
    \o NoiseStopCalls(voice, hardStop, fault)
    \o (IF hardStop
        THEN << Call("schedule", "vca", 0, "voice", ""),
                Call("schedule", "vca", 0, "voice", ""),
                Call("schedule", "filter", 0, "voice", ""),
                Call("schedule", "filter", 0, "voice", "") >>
        ELSE << >>)

\* The gain node of the component at position k is detached from the
\* voice's filter by these calls: its disconnect was made, or it threw, which
\* the backend does only for a node that has no connection left.
Detached(calls, k, fault) ==
  \/ \E j \in DOMAIN calls :
       calls[j].call = "disconnect" /\ calls[j].kind = "gain" /\ calls[j].k = k
  \/ fault = Fault("disconnect", "gain", k)

(* ------------------------------ stopVoice ------------------------------ *)

\* Variant: stopVoice forgets the handles without clearing them.
StopVoiceTimeouts_Kept(tm, voice) == tm

\* stopVoice, lines 424-425: the voice's handles are cleared in the window.
StopVoiceTimeouts(tm, voice) == ClearTimeouts(tm, voice.scheduledStopTimeouts)

\* stopVoice, lines 427-434, when the backend throws: a component whose try
\* block was left before gainNode.disconnect() is dropped with its gain node
\* still connected to the voice's filter.
LeavesConnected(voice, hardStop, fault) ==
  /\ fault # NoFault
  /\ \E k \in DOMAIN voice.oscillators :
       ~Detached(stopVoiceCalls(voice, hardStop, fault), k, fault)

\* Variant: the gain of the noise source stays on the voice.
StopComponents_KeepsNoiseGain(voice, hardStop, l, fault) ==
  disconnectLFOFromVoice(
    [DropOscillators(voice) EXCEPT
       !.scheduledStopTimeouts = << >>,
       !.noiseNode = FALSE,
       !.noiseStop = << >>,
       !.droppedConnected = @ \/ LeavesConnected(voice, hardStop, fault)],
    l)

\* stopVoice, lines 424-448: handle list emptied, oscillator and noise
\* components stopped, disconnected and dropped, LFO taps detached.
StopComponents(voice, hardStop, l, fault) ==
  disconnectLFOFromVoice(
    [DropOscillators(voice) EXCEPT
       !.scheduledStopTimeouts = << >>,
       !.noiseNode = FALSE,
       !.noiseStop = << >>,
       !.noiseGainNode = FALSE,
       !.droppedConnected = @ \/ LeavesConnected(voice, hardStop, fault)],
    l)

\* Variant: only a hard stop of a voice without a note resets the fields.
StopResetsNote_HardOnly(voice, hardStop) ==
  hardStop /\ voice.note = NoNote

\* stopVoice, line 466: are note, velocity and startTime reset?
StopResetsNote(voice, hardStop) ==
  ~hardStop \/ (hardStop /\ voice.note = NoNote)

\* stopVoice, lines 455-460: the cutoff a hard stop snaps the filter to.
baseFilterCutoff(params, voice) ==
  IF Truthy(voice.note) /\ params.filter.keyboardTracking > 0
  THEN TrackedCutoff(params, voice.note) ELSE params.filter.cutoff * 100

\* stopVoice, lines 450-462: a hard stop silences the voice at once.
HardStopAutomation(voice, params, now) ==
  [voice EXCEPT
     !.vcaGain = setValueAtTime(cancelScheduledValues(@, now), 0, now),
     !.filterFrequency = setValueAtTime(cancelScheduledValues(@, now),
                                        baseFilterCutoff(params, voice), now)]

\* Variant: the soft stop pins the two parameters as the hard stop does.
stopVoice_AlwaysPins(voice, hardStop, l, params, now, fault) ==
  LET u == HardStopAutomation(StopComponents(voice, hardStop, l, fault), params, now)
      w == IF StopResetsNote(u, hardStop)
           THEN [u EXCEPT !.note = NoNote, !.velocity = 0, !.startTime = 0]
           ELSE u
  IN [w EXCEPT !.isActive = FALSE, !.isReleasing = FALSE]

\* stopVoice(voice, hardStop): the voice record it leaves when the backend
\* answers the call `fault` by throwing (NoFault: it throws nowhere).
stopVoice(voice, hardStop, l, params, now, fault) ==
  LET u == StopComponents(voice, hardStop, l, fault)
      v == IF hardStop THEN HardStopAutomation(u, params, now) ELSE u
      w == IF StopResetsNote(v, hardStop)
           THEN [v EXCEPT !.note = NoNote, !.velocity = 0, !.startTime = 0]
           ELSE v
  IN [w EXCEPT !.isActive = FALSE, !.isReleasing = FALSE]

(* ------------------------- findVoiceForNoteOn -------------------------- *)

\* Array.prototype.find over a set of slots: the first one in pool order.
FirstOf(S) == CHOOSE i \in S : \A j \in S : i <= j

\* Variant: the sort is descending, so the newest voice comes first.
NewestOf(vs, S) ==
  CHOOSE i \in S : \A j \in S :
     \/ vs[i].startTime > vs[j].startTime
     \/ (vs[i].startTime = vs[j].startTime /\ i <= j)

\* Variant: among equal start times the last in pool order comes first.
OldestOf_LastOnTie(vs, S) ==
  CHOOSE i \in S : \A j \in S :
     \/ vs[i].startTime < vs[j].startTime
     \/ (vs[i].startTime = vs[j].startTime /\ i >= j)

\* filter(...).sort((a, b) => a.startTime - b.startTime)[0]: the sort is
\* stable, so among equal start times the first in pool order comes first.
OldestOf(vs, S) ==
  CHOOSE i \in S : \A j \in S :
     \/ vs[i].startTime < vs[j].startTime
     \/ (vs[i].startTime = vs[j].startTime /\ i <= j)

\* Variant: the retrigger test forgets the releasing voices.
RetriggerCandidates_ActiveOnly(vs, note) ==
  { i \in DOMAIN vs : vs[i].note = note /\ vs[i].isActive }

\* Step 1: voices holding the note, active or releasing.
RetriggerCandidates(vs, note) ==
  { i \in DOMAIN vs : vs[i].note = note /\ (vs[i].isActive \/ vs[i].isReleasing) }

\* Variant: a voice counts as free as soon as it is not active.
FreeCandidates_NotActive(vs) == { i \in DOMAIN vs : ~vs[i].isActive }

\* Step 2: voices neither active nor releasing.
FreeCandidates(vs) == { i \in DOMAIN vs : ~vs[i].isActive /\ ~vs[i].isReleasing }

\* Step 3a: voices only in their release phase.
ReleasingCandidates(vs) == { i \in DOMAIN vs : vs[i].isReleasing /\ ~vs[i].isActive }

\* Step 3b: voices actively sounding.
ActiveCandidates(vs) == { i \in DOMAIN vs : vs[i].isActive /\ ~vs[i].isReleasing }

\* Step 3c: every voice that is not free.
NonFreeCandidates(vs) == { i \in DOMAIN vs : vs[i].isActive \/ vs[i].isReleasing }

\* Step 3: the voice to steal when none is free.
StealVoice(vs) ==
  IF ReleasingCandidates(vs) # {}
    THEN [voice |-> OldestOf(vs, ReleasingCandidates(vs)), kind |-> "stealReleasing"]
  ELSE IF ActiveCandidates(vs) # {}
    THEN [voice |-> OldestOf(vs, ActiveCandidates(vs)), kind |-> "stealActive"]
  ELSE IF NonFreeCandidates(vs) # {}
    THEN [voice |-> OldestOf(vs, NonFreeCandidates(vs)), kind |-> "fallback"]
  ELSE [voice |-> NoVoice, kind |-> "none"]

\* Variant: a free slot is preferred to the slot that holds the note.
findVoiceForNoteOn_FreeFirst(vs, note) ==
  IF DOMAIN vs = {} THEN [voice |-> NoVoice, kind |-> "none"]
  ELSE IF FreeCandidates(vs) # {}
    THEN [voice |-> FirstOf(FreeCandidates(vs)), kind |-> "free"]
  ELSE IF RetriggerCandidates(vs, note) # {}
    THEN [voice |-> FirstOf(RetriggerCandidates(vs, note)), kind |-> "retrigger"]
  ELSE StealVoice(vs)

\* findVoiceForNoteOn(note): the slot, and which step found it.  Every kind
\* but "free" (and "none") hard-stops the slot before returning it.
findVoiceForNoteOn(vs, note) ==
  IF DOMAIN vs = {} THEN [voice |-> NoVoice, kind |-> "none"]
  ELSE IF RetriggerCandidates(vs, note) # {}
    THEN [voice |-> FirstOf(RetriggerCandidates(vs, note)), kind |-> "retrigger"]
  ELSE IF FreeCandidates(vs) # {}
    THEN [voice |-> FirstOf(FreeCandidates(vs)), kind |-> "free"]
  ELSE StealVoice(vs)

StopKinds == {"retrigger", "stealReleasing", "stealActive", "fallback"}

(* ------------------------------- noteOn -------------------------------- *)

\* Variant: every enabled descriptor gets a component, whatever its level.
BuiltDescriptors_EnabledOnly(params) ==
  SelectSeq([k \in DOMAIN params.oscillators |-> k],
            LAMBDA k : params.oscillators[k].enabled)

\* The descriptors noteOn builds a component for, in descriptor order.
BuiltDescriptors(params) ==
  SelectSeq([k \in DOMAIN params.oscillators |-> k],
            LAMBDA k : params.oscillators[k].enabled
                       /\ params.oscillators[k].level # 0)

\* Variant: a new component starts at its tuned frequency, unbent.
BuildOscillators_Unbent(note, params, bend) ==
  LET idx == BuiltDescriptors(params)
  IN [j \in DOMAIN idx |->
        [ type |-> params.oscillators[idx[j]].waveform,
          frequency |-> tunedFrequency(note, params.oscillators[idx[j]]),
          built |-> idx[j],
          stop |-> << >>,
          lfoPitch |-> FALSE ]]

\* noteOn, lines 295-316: one component per enabled descriptor of level # 0.
\* `built` records the descriptor a component was made from.
BuildOscillators(note, params, bend) ==
  LET idx == BuiltDescriptors(params)
  IN [j \in DOMAIN idx |->
        [ type |-> params.oscillators[idx[j]].waveform,
          frequency |-> tunedFrequency(note, params.oscillators[idx[j]]) + bend,
          built |-> idx[j],
          stop |-> << >>,
          lfoPitch |-> FALSE ]]

\* noteOn, lines 287-293: the fields of the assigned voice.
AssignNote(voice, note, velocity, now) ==
  [voice EXCEPT !.note = note, !.velocity = velocity, !.isActive = TRUE,
                !.isReleasing = FALSE, !.startTime = now,
                !.scheduledStopTimeouts = << >>]

\* noteOn, lines 318-335: the noise component.
BuildNoise(voice, params) ==
  IF params.noise.enabled /\ params.noise.level > 0
  THEN [voice EXCEPT !.noiseGainNode = TRUE, !.noiseNode = TRUE,
                     !.noiseStop = << >>]
  ELSE [voice EXCEPT !.noiseNode = FALSE, !.noiseStop = << >>]

\* noteOn, lines 337-338: filter type and resonance.
ConfigureFilter(voice, params) ==
  [voice EXCEPT !.filterType = params.filter.type,
                !.filterQ = params.filter.resonance]

\* noteOn, lines 340-345: the cutoff the filter envelope starts from.
filterBaseCutoff(params, note) ==
  IF params.filter.keyboardTracking > 0
  THEN TrackedCutoff(params, note) ELSE params.filter.cutoff * 100

\* noteOn, line 357: envelopeAmount * 5000, envelopeAmount in percent.
filterEnvModAmount(params) == params.filter.envelopeAmount * 5000

\* noteOn, lines 359-360.
filterAttackTarget(params, note) ==
  ClampCutoff(filterBaseCutoff(params, note) + filterEnvModAmount(params))

filterSustainTarget(params, note) ==
  ClampCutoff(filterBaseCutoff(params, note)
              + (params.filterEnvelope.sustain * filterEnvModAmount(params)) \div 100)

\* noteOn, line 347: 1.0 * (velocity / 127), in units of 1/12700.
ampEnvPeak(velocity) == 100 * velocity

\* noteOn, lines 347-368: the amplitude envelope, then the filter envelope.
ScheduleEnvelopes(voice, note, velocity, params, now) ==
  LET filterEnv == params.filterEnvelope
      f1 == cancelScheduledValues(voice.filterFrequency, now)
      f2 == setValueAtTime(f1, filterBaseCutoff(params, note), now)
      f3 == linearRampToValueAtTime(f2, filterAttackTarget(params, note),
              now + Max(1, filterEnv.attack))
      f4 == linearRampToValueAtTime(f3, filterSustainTarget(params, note),
              now + Max(1, filterEnv.attack) + Max(1, filterEnv.decay))
  IN [voice EXCEPT
        !.vcaGain = applyEnvelope(@, params.ampEnvelope, 0, ampEnvPeak(velocity),
                                  params.ampEnvelope.sustain, now),
        !.filterFrequency = f4]

\* noteOn, lines 296-316: the calls that build the component at position j.
OscBuildCalls(j) ==
  << Call("create", "osc", j, "new", ""),
     Call("schedule", "osc", j, "new", ""),
     Call("create", "gain", j, "new", ""),
     Call("schedule", "gain", j, "new", ""),
     Call("connect", "osc", j, "new", "gain"),
     Call("connect", "gain", j, "new", "filter"),
     Call("start", "osc", j, "new", ""),
     Call("hold", "osc", j, "new", "") >>

RECURSIVE OscillatorCalls(_)
OscillatorCalls(n) ==
  IF n = 0 THEN << >> ELSE OscillatorCalls(n - 1) \o OscBuildCalls(n)

\* noteOn, lines 318-335: the calls on the noise source and its gain.
NoiseCalls(voice, params) ==
  IF params.noise.enabled /\ params.noise.level > 0
  THEN (IF voice.noiseGainNode
        THEN << Call("disconnect", "noiseGain", 0, "old", "") >> ELSE << >>)
       \o (IF voice.noiseNode
           THEN << Call("stop", "noise", 0, "old", ""),
                   Call("disconnect", "noise", 0, "old", "") >> ELSE << >>)
       \o << Call("create", "noiseGain", 0, "new", "") >>
       \o (IF voice.noiseGainNode
           THEN << Call("drop", "noiseGain", 0, "old", "") >> ELSE << >>)
       \o << Call("hold", "noiseGain", 0, "new", ""),
              Call("schedule", "noiseGain", 0, "new", ""),
              Call("create", "noise", 0, "new", "") >>
       \o (IF voice.noiseNode
           THEN << Call("drop", "noise", 0, "old", "") >> ELSE << >>)
       \o << Call("hold", "noise", 0, "new", ""),
              Call("connect", "noise", 0, "new", "noiseGain"),
              Call("connect", "noiseGain", 0, "new", "filter"),
              Call("start", "noise", 0, "new", "") >>
  ELSE (IF voice.noiseGainNode
        THEN << Call("schedule", "noiseGain", 0, "old", "") >> ELSE << >>)
       \o (IF voice.noiseNode
           THEN << Call("stop", "noise", 0, "old", ""),
                   Call("disconnect", "noise", 0, "old", ""),
                   Call("drop", "noise", 0, "old", "") >> ELSE << >>)

\* connectLFOToVoice on a voice with n components.
LfoConnectCalls(n, params, l) ==
  IF ~params.lfo.enabled THEN << >>
  ELSE (IF l.gainPitch /\ params.lfo.pitchAmount > 0
        THEN [k \in 1 .. n |-> Call("connect", "lfoPitch", k, "lfo", "osc")]
        ELSE << >>)
       \o (IF l.gainFilter /\ params.lfo.filterAmount > 0
           THEN << Call("connect", "lfoFilter", 0, "lfo", "filter") >>
           ELSE << >>)

\* Variant: the new components are built before the voice is stopped.
noteOnCalls_BuildFirst(voice, hard, params, l, fault) ==
  LET stopped == IF hard THEN StopComponents(voice, TRUE, l, fault) ELSE voice
  IN OscillatorCalls(Len(BuiltDescriptors(params)))
       \o (IF hard THEN stopVoiceCalls(voice, TRUE, fault) ELSE << >>)
       \o NoiseCalls(stopped, params)

\* noteOn, lines 279-370: the calls noteOn makes on the nodes of the slot it
\* was given, in the order it makes them; `voice` is the slot as the
\* allocator found it and `hard` tells whether the allocator stopped it.
noteOnCalls(voice, hard, params, l, fault) ==
  LET stopped == IF hard THEN StopComponents(voice, TRUE, l, fault) ELSE voice
      n == Len(BuiltDescriptors(params))
  IN (IF hard THEN stopVoiceCalls(voice, TRUE, fault) ELSE << >>)
       \o [k \in DOMAIN stopped.oscillators |-> Call("drop", "osc", k, "old", "")]
       \o OscillatorCalls(n)
       \o NoiseCalls(stopped, params)
       \o << Call("schedule", "filter", 0, "voice", "") >>
       \o [x \in 1 .. 4 |-> Call("schedule", "vca", 0, "voice", "")]
       \o [x \in 1 .. 4 |-> Call("schedule", "filter", 0, "voice", "")]
       \o LfoConnectCalls(n, params, l)

\* Variant: the resume is requested whatever the state of the context.
ResumeContext_Always(state) == "resuming"

\* noteOn, lines 275-277: a suspended context is asked to resume.  The
\* request is asynchronous: the context is "resuming" (suspended, with a
\* resume pending) until ContextResumed completes it.
ResumeContext(state) ==
  IF state = "suspended" THEN "resuming" ELSE state

\* noteOn(note, velocity) when the backend answers the call `fault` of the
\* allocator's stopVoice by throwing.
NoteOnWith(note, velocity, fault) ==
  LET found == findVoiceForNoteOn(voices, note)
      i == found.voice
  IN /\ contextState' = ResumeContext(contextState)
     /\ IF i = NoVoice
        THEN /\ UNCHANGED << midiVars, voices, currentParams, pitchBendMultiplier, lfo,
                             timeouts, currentTime >>
             /\ last' = [kind |-> "none", voice |-> NoVoice, cancelled |-> FALSE]
             /\ run' = Impure
        ELSE LET hard == found.kind \in StopKinds
                 stopped == IF hard
                            THEN stopVoice(voices[i], TRUE, lfo, currentParams,
                                           currentTime, fault)
                            ELSE voices[i]
                 tm1 == IF hard THEN StopVoiceTimeouts(timeouts, voices[i]) ELSE timeouts
                 assigned == AssignNote(stopped, note, velocity, currentTime)
                 tm2 == ClearTimeouts(tm1, stopped.scheduledStopTimeouts)
                 withOsc == [DropOscillators(assigned) EXCEPT !.oscillators =
                               BuildOscillators(note, currentParams, pitchBendMultiplier)]
                 final == connectLFOToVoice(
                            ScheduleEnvelopes(
                              ConfigureFilter(BuildNoise(withOsc, currentParams), currentParams),
                              note, velocity, currentParams, currentTime),
                            currentParams, lfo)
             IN /\ UNCHANGED << midiVars, currentParams, pitchBendMultiplier, lfo, currentTime >>
                /\ last' = [kind |-> found.kind, voice |-> i,
                            cancelled |-> tm2 # timeouts]
                /\ run' = IF run # Impure /\ note \notin SeqToSet(run)
                          THEN Append(run, note) ELSE Impure
                /\ timeouts' = tm2
                /\ voices' = [voices EXCEPT ![i] = final]

\* noteOn(note, velocity) on a backend that throws nowhere: every generator
\* is started when it is created (line 314), so stop() has nothing to refuse.
NoteOn(note, velocity) == NoteOnWith(note, velocity, NoFault)

\* The resume requested by noteOn (line 276) completes.
ContextResumed ==
  /\ contextState = "resuming"
  /\ contextState' = "running"
  /\ UNCHANGED << midiVars, voices, currentParams, pitchBendMultiplier, lfo, timeouts,
                  currentTime, last, run >>

(* ------------------------------- noteOff ------------------------------- *)

\* Variant: noteOff ends every sounding voice, whatever its note.
VoicesToEnd_AnyNote(vs, note) ==
  { i \in DOMAIN vs : vs[i].isActive \/ vs[i].isReleasing }

\* noteOff, line 375: the voices it ends.
VoicesToEnd(vs, note) ==
  { i \in DOMAIN vs : vs[i].note = note /\ (vs[i].isActive \/ vs[i].isReleasing) }

\* Variant: the delay follows the amplitude release alone.
CleanupDelay_AmpOnly(params) == params.ampEnvelope.release + CleanupGuardMs

\* noteOff, lines 398-401 and 417: the delay of the cleanup callback.
CleanupDelay(params) ==
  Max(params.ampEnvelope.release, params.filterEnvelope.release) + CleanupGuardMs

\* Variant: the voice is marked releasing and stays marked active.
BeginRelease_StaysActive(voice, handle) ==
  [voice EXCEPT !.isReleasing = TRUE,
                !.scheduledStopTimeouts = Append(@, handle)]

\* noteOff, lines 380-381 and 418: the voice enters release and keeps the
\* handle of its cleanup callback.
BeginRelease(voice, handle) ==
  [voice EXCEPT !.isActive = FALSE, !.isReleasing = TRUE,
                !.scheduledStopTimeouts = Append(@, handle)]

\* noteOff, lines 385-390: the cutoff the filter is released to.
filterReleaseTarget(params, voice) ==
  IF params.filter.keyboardTracking > 0 /\ Truthy(voice.note)
  THEN TrackedCutoff(params, voice.note) ELSE params.filter.cutoff * 100

\* noteOff, lines 398-410: every generator of the voice is told to stop at
\* now + max(ampRelease, filterRelease) + 50 ms.  A generator stops at the
\* time of the last stop() it was given; stop is << >> before the first one.
ScheduleStop(voice, params, now) ==
  LET stopTime == now + Max(params.ampEnvelope.release, params.filterEnvelope.release)
                      + StopGuardMs
  IN [voice EXCEPT
        !.oscillators = [k \in DOMAIN voice.oscillators |->
                           [voice.oscillators[k] EXCEPT !.stop = << stopTime >>]],
        !.noiseStop = IF voice.noiseNode THEN << stopTime >> ELSE @]

\* noteOff, lines 383-395: both envelopes are released.
ReleaseEnvelopes(voice, params, now) ==
  [voice EXCEPT
     !.vcaGain = releaseEnvelope(@, params.ampEnvelope.release, 0, now),
     !.filterFrequency = releaseEnvelope(@, params.filterEnvelope.release,
                                         filterReleaseTarget(params, voice), now)]

NoteOff(note) ==
  LET ends == VoicesToEnd(voices, note)
      due == currentTime + CleanupDelay(currentParams)
      handle(i) == Timeout(i, note, due, voices[i].isActive)
  IN /\ ends # {} =>
          /\ HandleCount(voices, DOMAIN voices) + Cardinality(ends) <= MaxTimeouts
          /\ due <= MaxClock
     /\ voices' = [i \in DOMAIN voices |->
                     IF i \in ends
                     THEN BeginRelease(
                            ScheduleStop(
                              ReleaseEnvelopes(voices[i], currentParams, currentTime),
                              currentParams, currentTime),
                            handle(i))
                     ELSE voices[i]]
     /\ timeouts' = timeouts \cup { handle(i) : i \in ends }
     /\ UNCHANGED << midiVars, currentParams, pitchBendMultiplier, lfo, currentTime,
                     contextState >>
     /\ last' = IF ends = {} THEN last
                ELSE [kind |-> "release", voice |-> FirstOf(ends),
                      cancelled |-> FALSE]
     /\ run' = Impure

(* --------------------------- cleanup callback -------------------------- *)

\* The callback's guard, line 414.
CleanupGuard(voice, note) == voice.isReleasing /\ voice.note = note

\* A pending callback whose delay has elapsed runs (lines 412-417), on a
\* backend that answers the call `fault` by throwing.
TimerFireWith(t, fault) ==
  /\ t \in timeouts
  /\ t.due <= currentTime
  /\ IF CleanupGuard(voices[t.voice], t.note)
     THEN /\ voices' = [voices EXCEPT ![t.voice] =
                            stopVoice(@, FALSE, lfo, currentParams, currentTime,
                                      fault)]
          /\ timeouts' = StopVoiceTimeouts(timeouts \ {t}, voices[t.voice])
     ELSE /\ voices' = voices
          /\ timeouts' = timeouts \ {t}
  /\ UNCHANGED << midiVars, currentParams, pitchBendMultiplier, lfo, currentTime,
                  contextState >>
  /\ last' = [kind |-> IF CleanupGuard(voices[t.voice], t.note)
                       THEN "cleanup" ELSE "skip",
              voice |-> t.voice, cancelled |-> FALSE]
  /\ run' = Impure

\* The callback on a backend that throws nowhere.
TimerFire(t) == TimerFireWith(t, NoFault)

\* Time passes.  A callback runs when its delay has elapsed: the clock does
\* not move past a pending callback's due time.  The automation events that
\* have elapsed leave the timelines.
Tick ==
  /\ currentTime + TickMs <= MaxClock
  /\ \A t \in timeouts : t.due > currentTime
  /\ currentTime' =
       LET step == currentTime + TickMs
           dues == { t.due : t \in timeouts }
       IN IF dues = {} THEN step
          ELSE Min(step, CHOOSE d \in dues : \A e \in dues : d <= e)
  /\ voices' = [i \in DOMAIN voices |->
                  [voices[i] EXCEPT
                     !.vcaGain = Pending(@, currentTime'),
                     !.filterFrequency = Pending(@, currentTime')]]
  /\ UNCHANGED << midiVars, currentParams, pitchBendMultiplier, lfo, timeouts,
                  contextState, last, run >>

(* ----------------------------- setPitchBend ---------------------------- *)

\* oscComp.oscNode.type + voice.note + index (string concatenation)
OscKey(oscComp, note, index) == oscComp.type \o ToString(note) \o ToString(index)

\* setPitchBend, line 484: the descriptor looked up for the component at
\* (zero-based) position index of the voice: the one whose id is the key,
\* else the one at the same position of the descriptor list; 0: undefined.
LookupOscParam(params, oscComp, note, index) ==
  LET byId == { k \in DOMAIN params.oscillators :
                  params.oscillators[k].id = OscKey(oscComp, note, index) }
  IN IF byId # {} THEN FirstOf(byId)
     ELSE IF index + 1 \in DOMAIN params.oscillators THEN index + 1
     ELSE 0

\* setPitchBend, lines 482-493, for one component.
BendOscillator(params, oscComp, note, index, bend) ==
  LET k == LookupOscParam(params, oscComp, note, index)
  IN IF k # 0 /\ params.oscillators[k].enabled
     THEN [oscComp EXCEPT !.frequency =
             tunedFrequency(note, params.oscillators[k]) + bend]
     ELSE oscComp

SetPitchBend(bendValue) ==
  LET bend == BendMultiplier(bendValue)
  IN /\ pitchBendMultiplier' = bend
     /\ voices' = [i \in DOMAIN voices |->
          IF (voices[i].isActive \/ voices[i].isReleasing) /\ voices[i].note # NoNote
          THEN [voices[i] EXCEPT !.oscillators =
                  [j \in DOMAIN voices[i].oscillators |->
                     BendOscillator(currentParams, voices[i].oscillators[j],
                                    voices[i].note, j - 1, bend)]]
          ELSE voices[i]]
     /\ UNCHANGED << midiVars, currentParams, lfo, timeouts, currentTime, contextState,
                     last, run >>

(* ----------------------------- updateParams ---------------------------- *)

\* Variant: the push reaches every sounding voice, releasing ones included.
PushFilter_AllSounding(vs, old, new) ==
  IF old.filter.type # new.filter.type \/ old.filter.resonance # new.filter.resonance
  THEN [i \in DOMAIN vs |->
          IF vs[i].isActive \/ vs[i].isReleasing
          THEN ConfigureFilter(vs[i], new) ELSE vs[i]]
  ELSE vs

\* updateParams, lines 504-517: the new filter type and resonance are pushed
\* to the voices that are active and not releasing.
PushFilter(vs, old, new) ==
  IF old.filter.type # new.filter.type \/ old.filter.resonance # new.filter.resonance
  THEN [i \in DOMAIN vs |->
          IF vs[i].isActive /\ ~vs[i].isReleasing
          THEN ConfigureFilter(vs[i], new) ELSE vs[i]]
  ELSE vs

\* updateParams, lines 519-523.
LfoConfigChanged(old, new) ==
  \/ old.lfo.enabled # new.lfo.enabled
  \/ old.lfo.waveform # new.lfo.waveform
  \/ old.lfo.rate # new.lfo.rate
  \/ old.lfo.pitchAmount # new.lfo.pitchAmount
  \/ old.lfo.filterAmount # new.lfo.filterAmount

\* updateParams, lines 525-541.
RebuildLfo(vs, l, new, now) ==
  LET s == IF new.lfo.enabled THEN setupLFO(new.lfo, vs, l, new, now)
           ELSE teardownLFO(vs, l)
  IN [ lfo |-> s.lfo,
       voices |-> [i \in DOMAIN vs |->
          IF s.voices[i].isActive /\ ~s.voices[i].isReleasing
          THEN connectLFOToVoice(disconnectLFOFromVoice(s.voices[i], s.lfo), new, s.lfo)
          ELSE s.voices[i]] ]

UpdateParams(newParams, stale) ==
  LET g == applyParamsToEngineGlobally(newParams, voices, lfo, currentTime, stale)
      f == PushFilter(g.voices, currentParams, newParams)
      r == IF LfoConfigChanged(currentParams, newParams)
           THEN RebuildLfo(f, g.lfo, newParams, currentTime)
           ELSE [lfo |-> g.lfo, voices |-> f]
  IN /\ currentParams' = newParams
     /\ voices' = r.voices
     /\ lfo' = r.lfo
     /\ UNCHANGED << midiVars, pitchBendMultiplier, timeouts, currentTime, contextState,
                     last, run >>

(* -------------------------------- dispose ------------------------------ *)

\* dispose, line 549: what it does to one voice.
DisposeVoice(voice, l, params, now) ==
  stopVoice(voice, TRUE, l, params, now, NoFault)

\* The pending callbacks left once stopVoice has run on the voices in S.
RECURSIVE DisposeTimeouts(_, _, _)
DisposeTimeouts(tm, vs, S) ==
  IF S = {} THEN tm
  ELSE LET i == FirstOf(S)
       IN DisposeTimeouts(StopVoiceTimeouts(tm, vs[i]), vs, S \ {i})

\* Variant: dispose leaves the LFO as it is.
DisposeLfo_Kept(vs, l) == [lfo |-> l, voices |-> vs]

\* dispose, line 550.
DisposeLfo(vs, l) == teardownLFO(vs, l)

\* dispose, lines 548-555: every voice is hard-stopped in pool order, the
\* LFO is torn down and the context is closed.
Dispose ==
  LET stopped == [i \in DOMAIN voices |-> DisposeVoice(voices[i], lfo, currentParams, currentTime)]
      d == DisposeLfo(stopped, lfo)
  IN /\ voices' = d.voices
     /\ lfo' = d.lfo
     /\ timeouts' = DisposeTimeouts(timeouts, voices, DOMAIN voices)
     /\ contextState' = "closed"
     /\ UNCHANGED << midiVars, currentParams, pitchBendMultiplier, currentTime >>
     /\ last' = [kind |-> "dispose", voice |-> NoVoice,
                 cancelled |-> timeouts' # timeouts]
     /\ run' = Impure

(* ------------------------------ MidiService ---------------------------- *)

\* The sequence s without its element p.
Without(s, p) == SelectSeq(s, LAMBDA x : x # p)

\* selectDevice(deviceId), lines 64-88: the selection, the ports that carry
\* the handler and the value returned.  NoInput stands for deviceId = null.
selectDevice(deviceId, access, ins, active, handlers) ==
  IF ~access
  THEN [activeInput |-> active, onmidimessage |-> handlers, result |-> FALSE]
  ELSE LET cleared == IF active # NoInput THEN handlers \ {active} ELSE handlers
       IN IF deviceId = NoInput
            THEN [activeInput |-> NoInput, onmidimessage |-> cleared, result |-> TRUE]
          ELSE IF deviceId \in SeqToSet(ins)
            THEN [activeInput |-> deviceId,
                  onmidimessage |-> cleared \cup {deviceId}, result |-> TRUE]
          ELSE [activeInput |-> active, onmidimessage |-> cleared, result |-> FALSE]

\* initialize, lines 27-62, when access is granted: the inputs are read from
\* the map and the state-change handler is installed.  (When access is
\* refused or the API is missing, nothing changes.)
Initialize ==
  /\ ~midiAccess
  /\ midiAccess' = TRUE
  /\ inputs' = connected
  /\ UNCHANGED << voices, currentParams, pitchBendMultiplier, lfo, timeouts,
                  currentTime, contextState, last, run,
                  activeInput, onmidimessage, connected >>

SelectDevice(deviceId) ==
  LET r == selectDevice(deviceId, midiAccess, inputs, activeInput, onmidimessage)
  IN /\ activeInput' = r.activeInput
     /\ onmidimessage' = r.onmidimessage
     /\ UNCHANGED << voices, currentParams, pitchBendMultiplier, lfo, timeouts,
                     currentTime, contextState, last, run,
                     midiAccess, inputs, connected >>

\* midiAccess.onstatechange, lines 33-51, once the ports are `ports`; it is
\* installed by initialize.  A selected port that has gone loses the handler
\* and the selection, and the first input left, if any, is selected.
onstatechange(ports) ==
  IF ~midiAccess
  THEN [inputs |-> inputs, activeInput |-> activeInput, onmidimessage |-> onmidimessage]
  ELSE IF activeInput # NoInput /\ activeInput \notin SeqToSet(ports)
  THEN LET off == onmidimessage \ {activeInput}
           r == IF Len(ports) > 0
                THEN selectDevice(ports[1], TRUE, ports, NoInput, off)
                ELSE [activeInput |-> NoInput, onmidimessage |-> off, result |-> FALSE]
       IN [inputs |-> ports, activeInput |-> r.activeInput,
           onmidimessage |-> r.onmidimessage]
  ELSE [inputs |-> ports, activeInput |-> activeInput, onmidimessage |-> onmidimessage]

\* A port is plugged in (it comes last in the map) or unplugged, and the
\* state-change handler runs.
PortChanges(ports) ==
  LET h == onstatechange(ports)
  IN /\ connected' = ports
     /\ inputs' = h.inputs
     /\ activeInput' = h.activeInput
     /\ onmidimessage' = h.onmidimessage
     /\ UNCHANGED << voices, currentParams, pitchBendMultiplier, lfo, timeouts,
                     currentTime, contextState, last, run, midiAccess >>

PortConnected(p) ==
  /\ p \notin SeqToSet(connected)
  /\ PortChanges(Append(connected, p))

PortDisconnected(p) ==
  /\ p \in SeqToSet(connected)
  /\ PortChanges(Without(connected, p))

\* Variant: a note-on message is passed on whatever its velocity.
handleMidiMessage_AnyVelocity(data) ==
  LET command == (data[1] \div 16) * 16
  IN [callback |-> IF command \in { MIDI_NOTE_ON, MIDI_NOTE_OFF }
                   THEN "onNoteEvent" ELSE "none",
      command |-> command, note |-> data[2], velocity |-> data[3],
      bendValue |-> 0, control |-> 0, value |-> 0]

\* handleMidiMessage, lines 90-116: the callback invoked and its argument.
\* bendValue is ((msb << 7) + lsb - 8192) / 8192; the bends that occur are
\* whole.
handleMidiMessage(data) ==
  LET command == (data[1] \div 16) * 16
      none == [callback |-> "none", command |-> command, note |-> 0,
               velocity |-> 0, bendValue |-> 0, control |-> 0, value |-> 0]
  IN IF command = MIDI_NOTE_ON
       THEN IF data[3] > 0
            THEN [none EXCEPT !.callback = "onNoteEvent", !.note = data[2],
                              !.velocity = data[3]]
            ELSE [none EXCEPT !.callback = "onNoteEvent", !.command = MIDI_NOTE_OFF,
                              !.note = data[2], !.velocity = 0]
     ELSE IF command = MIDI_NOTE_OFF
       THEN [none EXCEPT !.callback = "onNoteEvent", !.note = data[2],
                         !.velocity = data[3]]
     ELSE IF command = MIDI_PITCH_BEND
       THEN [none EXCEPT !.callback = "onPitchBendEvent",
                         !.bendValue = (data[3] * 128 + data[2] - 8192) \div 8192]
     ELSE IF command = MIDI_CC
       THEN [none EXCEPT !.callback = "onCcEvent", !.control = data[2],
                         !.value = data[3]]
     ELSE none

\* App.handleCcEvent, lines 104-113, and the updateParams that follows the
\* change of the panel state: the mod wheel sets an LFO depth, in percent.
ModWheel(params, value) ==
  IF params.lfo.filterAmount > 0 \/ params.lfo.pitchAmount = 0
  THEN [params EXCEPT !.lfo.filterAmount = (value * 100) \div 127]
  ELSE [params EXCEPT !.lfo.pitchAmount = (value * 100) \div 127]

\* A message arrives on a port that carries the handler: handleMidiMessage
\* runs and the callback of the application runs with it
\* (App.handleNoteEvent, handlePitchBendEvent, handleCcEvent).
MidiMessage(p, data) ==
  /\ p \in SeqToSet(connected)
  /\ p \in onmidimessage
  /\ LET m == handleMidiMessage(data)
     IN IF m.callback = "onNoteEvent" /\ m.command = MIDI_NOTE_ON
          THEN NoteOn(m.note, m.velocity)
        ELSE IF m.callback = "onNoteEvent" /\ m.command = MIDI_NOTE_OFF
          THEN NoteOff(m.note)
        ELSE IF m.callback = "onPitchBendEvent"
          THEN SetPitchBend(m.bendValue)
        ELSE IF m.callback = "onCcEvent" /\ m.control = 1
          THEN UpdateParams(ModWheel(currentParams, m.value), FALSE)
        ELSE UNCHANGED vars

(* ------------------------------ constructor ---------------------------- *)

\* new MidiService(...), lines 10-25: no access, no input, nothing selected;
\* no port carries its handler.  No MIDI port is plugged in yet.
MidiServiceInit ==
  /\ midiAccess = FALSE
  /\ inputs = << >>
  /\ activeInput = NoInput
  /\ onmidimessage = {}
  /\ connected = << >>

\* The constructor with a pool over the slots in `pool` and the context in
\* state `state` (a context created before a user gesture is suspended).
InitPool(initialParams, pool, state) ==
  LET fresh == [i \in pool |-> NewVoice(i)]
      g == applyParamsToEngineGlobally(initialParams, fresh, NoLfo, 0, FALSE)
  IN /\ voices = g.voices
     /\ contextState = state
     /\ currentParams = initialParams
     /\ pitchBendMultiplier = 0
     /\ lfo = g.lfo
     /\ timeouts = {}
     /\ currentTime = 0
     /\ last = [kind |-> "init", voice |-> NoVoice, cancelled |-> FALSE]
     /\ run = << >>
     /\ MidiServiceInit

\* The constructor with the full pool and a running context.
InitWith(initialParams) == InitPool(initialParams, Voices, "running")

(* ---------------------------- specifications --------------------------- *)

\* Parameter snapshots of the main specification: short releases, so that
\* a release fits the clock.
ShortRelease == WithRelease(INITIAL_SYNTH_PARAMS, 0, 0)
LongRelease == WithRelease(INITIAL_SYNTH_PARAMS, 100, 0)
SpecParams == { ShortRelease, LongRelease }

Init == InitWith(ShortRelease)

\* The operations on the voice pool, and time.
PoolNext ==
  \/ \E n \in Notes : NoteOn(n, 100)
  \/ \E n \in Notes : NoteOff(n)
  \/ \E t \in timeouts : TimerFire(t)
  \/ Tick

\* The voice pool under changing parameter snapshots.  (The pitch wheel is
\* exercised by SpecBend, dispose by SpecDispose.)
Next ==
  \/ PoolNext
  \/ \E p \in SpecParams : UpdateParams(p, FALSE)

Spec == Init /\ [][Next]_vars

\* The voice pool alone, under one parameter snapshot.
SpecPool == Init /\ [][PoolNext]_vars

\* Runs of noteOn calls: one pitch more than a stolen pool needs, and time.
RunNotes == 0 .. (MAX_POLYPHONY + 1)

RunNext ==
  \/ \E n \in RunNotes : NoteOn(n, 100)
  \/ Tick

SpecRun == Init /\ [][RunNext]_vars

\* Parameter sets for the pitch wheel: the initial descriptors, the first
\* descriptor disabled, and the first descriptor enabled at level 0 an
\* octave down.
Osc1Disabled ==
  WithOscillators(ShortRelease,
    [INITIAL_SYNTH_PARAMS.oscillators EXCEPT ![1].enabled = FALSE])
Osc1Silent ==
  WithOscillators(ShortRelease,
    [INITIAL_SYNTH_PARAMS.oscillators EXCEPT ![1].level = 0, ![1].octave = -1])
BendParams == { ShortRelease, Osc1Disabled, Osc1Silent }

InitBend == \E p \in BendParams : InitWith(p)

\* Notes and the pitch wheel, with no updateParams.
BendNext ==
  \/ PoolNext
  \/ \E b \in {-1, 0, 1} : SetPitchBend(b)

SpecBend == InitBend /\ [][BendNext]_vars

\* No descriptor yields a component: the first two are at level 0, the
\* third is disabled.
AllOscOff ==
  WithOscillators(ShortRelease,
    [INITIAL_SYNTH_PARAMS.oscillators EXCEPT ![1].level = 0, ![2].level = 0])

NoteOnParams == { ShortRelease, AllOscOff }

\* MIDI velocities offered to noteOn: the weakest and the strongest.
Velocities == { 1, 127 }

InitNoteOn == \E p \in NoteOnParams : InitWith(p)

\* noteOn with several velocities and descriptor sets, and time.
NoteOnNext ==
  \/ \E n \in Notes, v \in Velocities : NoteOn(n, v)
  \/ Tick

SpecNoteOn == InitNoteOn /\ [][NoteOnNext]_vars

\* The LFO enabled with both depths above 0.
LfoOn == WithLfo(ShortRelease, TRUE, 50, 50)

\* The LFO enabled on the filter alone.
LfoFilter == WithLfo(ShortRelease, TRUE, 0, 50)

DisposeParams == { ShortRelease, LfoFilter }

InitDispose == \E p \in DisposeParams : InitWith(p)

\* The voice pool and dispose.  The application disposes of the engine when
\* it unmounts (App, line 71) and sends it no event afterwards.
DisposeNext ==
  \/ contextState # "closed" /\ PoolNext
  \/ Dispose

SpecDispose == InitDispose /\ [][DisposeNext]_vars

\* noteOn at two velocities as time passes, under the initial envelopes and
\* under an amplitude envelope with no attack, no decay and no sustain.
Percussive ==
  [ShortRelease EXCEPT !.ampEnvelope =
     [attack |-> 0, decay |-> 0, sustain |-> 0, release |-> 0]]

EnvelopeParams == { ShortRelease, Percussive }

InitEnvelope == \E p \in EnvelopeParams : InitWith(p)

EnvelopeNext ==
  \/ \E n \in Notes, v \in Velocities : NoteOn(n, v)
  \/ Tick

SpecEnvelope == InitEnvelope /\ [][EnvelopeNext]_vars

\* An engine built with zero polyphony, on a context that may still be
\* suspended.
ContextStates == { "suspended", "running" }

InitEmpty ==
  \E p \in DisposeParams, st \in ContextStates : InitPool(p, {}, st)

EmptyNext ==
  \/ \E n \in Notes, v \in Velocities : NoteOn(n, v)
  \/ \E n \in Notes : NoteOff(n)
  \/ \E b \in {-1, 0, 1} : SetPitchBend(b)
  \/ \E p \in DisposeParams, stale \in BOOLEAN : UpdateParams(p, stale)
  \/ ContextResumed
  \/ Tick
  \/ Dispose

SpecEmpty == InitEmpty /\ [][EmptyNext]_vars

\* The LFO switched on and off and re-tuned while notes are struck.
LfoFast == [LfoOn EXCEPT !.lfo.rate = 8]

LfoParams == { ShortRelease, LfoOn, LfoFast }

InitLfo == \E p \in LfoParams : InitWith(p)

LfoNext ==
  \/ \E n \in Notes : NoteOn(n, 100)
  \/ \E p \in LfoParams, stale \in BOOLEAN : UpdateParams(p, stale)
  \/ Tick

SpecLfo == InitLfo /\ [][LfoNext]_vars

\* Noise on, with the LFO on both taps.
Noisy == WithNoise(LfoOn, TRUE)

GraphParams == { ShortRelease, Noisy }

InitGraph == \E p \in GraphParams : InitWith(p)

\* Notes struck and released within one reading of the clock: slots are
\* taken free, retriggered and stolen, active and releasing.
GraphNext ==
  \/ \E n \in Notes : NoteOn(n, 100)
  \/ \E n \in Notes : NoteOff(n)

SpecGraph == InitGraph /\ [][GraphNext]_vars

\* Noise on, the LFO off.
NoisyDry == WithNoise(ShortRelease, TRUE)

\* The calls of stopVoice a backend may answer by throwing: stop() and
\* disconnect() on a component's nodes and on the noise nodes.
Faults ==
  { Fault("stop", "osc", k) : k \in 1 .. 2 }
    \cup { Fault("disconnect", kind, k) : kind \in {"osc", "gain"}, k \in 1 .. 2 }
    \cup { Fault("stop", "noise", 0), Fault("disconnect", "noise", 0),
           Fault("disconnect", "noiseGain", 0) }

\* The notes struck on the throwing backend.
FaultNotes == { 0, 1 }

InitFault == InitWith(NoisyDry)

\* The voice pool on a backend that throws in one call of each stopVoice.
FaultNext ==
  \/ \E n \in FaultNotes, f \in Faults : NoteOnWith(n, 100, f)
  \/ \E n \in FaultNotes : NoteOff(n)
  \/ \E t \in timeouts, f \in Faults : TimerFireWith(t, f)
  \/ currentTime + TickMs <= ShortClock /\ Tick

SpecFault == InitFault /\ [][FaultNext]_vars

\* Snapshots under which a voice is all flags and timers: no descriptor
\* yields a component.
AllParams == { AllOscOff, WithRelease(AllOscOff, 100, 0) }

InitAll == InitWith(AllOscOff)

\* A key that is down: an active voice sounds the note.
KeyDown(n) == \E i \in DOMAIN voices : voices[i].note = n /\ voices[i].isActive

\* Every operation of the engine in any order, dispose included: the engine
\* object still takes calls after dispose.  A key is released once.
AllNext ==
  \/ \E n \in Notes : NoteOn(n, 100)
  \/ \E n \in Notes : KeyDown(n) /\ NoteOff(n)
  \/ \E b \in {0, 1} : SetPitchBend(b)
  \/ \E p \in AllParams : UpdateParams(p, FALSE)
  \/ \E t \in timeouts : TimerFire(t)
  \/ currentTime + TickMs <= ShortClock /\ Tick
  \/ Dispose

SpecAll == InitAll /\ [][AllNext]_vars

\* The LFO enabled on the pitch alone.
LfoPitch == WithLfo(ShortRelease, TRUE, 50, 0)

\* The LFO disabled, with both depths left above 0.
LfoOff == WithLfo(ShortRelease, FALSE, 50, 50)

\* The snapshots updateParams is given.
TapParams == { LfoOff, LfoOn, LfoFilter, LfoPitch }

InitTaps == \E p \in { ShortRelease, LfoOn } : InitWith(p)

\* Notes struck and released within one reading of the clock while the LFO
\* is switched on and off and its depths change.
TapsNext ==
  \/ \E n \in Notes : NoteOn(n, 100)
  \/ \E n \in Notes : NoteOff(n)
  \/ \E p \in TapParams, stale \in BOOLEAN : UpdateParams(p, stale)

SpecTaps == InitTaps /\ [][TapsNext]_vars

\* The snapshots of the filter panel: the type and the resonance of the
\* filter change, one at a time and together, and the LFO is switched on.
FilterParams ==
  { ShortRelease, WithFilter(ShortRelease, "highpass", 1),
    WithFilter(ShortRelease, "lowpass", 5),
    WithFilter(LfoOn, "highpass", 5) }

InitFilter == InitWith(ShortRelease)

\* Notes struck and released, with one round of cleanup callbacks, while the
\* filter panel is turned.
FilterNext ==
  \/ \E n \in FaultNotes : NoteOn(n, 100)
  \/ \E n \in FaultNotes : NoteOff(n)
  \/ \E p \in FilterParams : UpdateParams(p, FALSE)
  \/ \E t \in timeouts : TimerFire(t)
  \/ currentTime + TickMs <= ShortClock /\ Tick

SpecFilter == InitFilter /\ [][FilterNext]_vars

\* Snapshots at the ends of the cutoff: below 20 Hz and above half the
\* sample rate, with the keyboard tracking off and on and the envelope
\* amount at either end.
CutoffParams ==
  { ShortRelease,
    WithCutoff(ShortRelease, 20, 0, -100), WithCutoff(ShortRelease, 10, 0, -100),
    WithCutoff(ShortRelease, 10, 100, -100), WithCutoff(ShortRelease, 30000, 0, 100),
    WithCutoff(ShortRelease, 30000, 100, 100) }

InitCutoff == \E p \in CutoffParams : InitWith(p)

\* Notes struck and released within one reading of the clock while the
\* cutoff panel is turned.
CutoffNext ==
  \/ \E n \in FaultNotes : NoteOn(n, 100)
  \/ \E n \in FaultNotes : NoteOff(n)
  \/ \E p \in CutoffParams : UpdateParams(p, FALSE)

SpecCutoff == InitCutoff /\ [][CutoffNext]_vars

\* The snapshots the pitch wheel is turned under.
WheelParams == { ShortRelease, Osc1Silent }

InitWheel == \E p \in WheelParams : InitWith(p)

\* Notes struck and released, with one round of cleanup callbacks, while the
\* pitch wheel and the panel are turned.
WheelNext ==
  \/ \E n \in FaultNotes : NoteOn(n, 100)
  \/ \E n \in FaultNotes : NoteOff(n)
  \/ \E b \in {-1, 0, 1} : SetPitchBend(b)
  \/ \E p \in WheelParams : UpdateParams(p, FALSE)
  \/ \E t \in timeouts : TimerFire(t)
  \/ currentTime + TickMs <= ShortClock /\ Tick

SpecWheel == InitWheel /\ [][WheelNext]_vars

\* The messages the ports send: note on (on two channels) and note off with
\* velocities 0 and 127, the pitch wheel at its lowest and at rest, the mod
\* wheel and the volume controller, and a program change.
MidiNoteMessages ==
  { << st, n, v >> : st \in { 144, 145, 128 }, n \in FaultNotes, v \in { 0, 127 } }
MidiMessages ==
  MidiNoteMessages
    \cup { << 224, 0, 0 >>, << 224, 0, 64 >>, << 176, 1, 127 >>, << 176, 1, 0 >>,
           << 176, 7, 127 >>, << 192, 0, 0 >> }

InitMidi == InitWith(ShortRelease)

\* Ports come and go, the device menu is used, and the selected port plays.
MidiNext ==
  \/ Initialize
  \/ \E p \in Ports : PortConnected(p)
  \/ \E p \in Ports : PortDisconnected(p)
  \/ \E d \in Ports \cup { NoInput } : SelectDevice(d)
  \/ \E p \in Ports, data \in MidiMessages : MidiMessage(p, data)

SpecMidi == InitMidi /\ [][MidiNext]_vars

\* Release times for the cleanup delay: either envelope may be the longer.
FairParams ==
  { LongRelease, WithRelease(INITIAL_SYNTH_PARAMS, 0, 100) }

InitFair == \E p \in FairParams : InitWith(p)

\* The voice pool where time passes and due callbacks run: the event loop
\* runs every callback whose delay has elapsed.
Fairness ==
  /\ WF_vars(Tick)
  /\ WF_vars(\E t \in timeouts : TimerFire(t))

SpecFair == InitFair /\ [][PoolNext]_vars /\ Fairness

(* ------------------------------- claims -------------------------------- *)

\* The voices that sound note n: they hold it and are active or releasing.
HoldersOf(vs, n) == { i \in DOMAIN vs : vs[i].note = n /\ IsSounding(vs[i]) }

\* C1: in every reachable state at most one voice that is active or
\* releasing holds any given note; a noteOn on a sounding note does not
\* raise the number of voices sounding it above one.
C1_OneVoicePerNote ==
  \A n \in Notes : Cardinality(HoldersOf(voices, n)) <= 1

\* A noteOn has just retriggered a sounding note while another slot was free.
C1_Witness ==
  /\ last.kind = "retrigger"
  /\ Cardinality(HoldersOf(voices, voices[last.voice].note)) = 1
  /\ \E i \in Voices : IsFree(voices[i])

\* C9: between operations no voice has isActive and isReleasing both true.
C9_NotActiveAndReleasing ==
  \A i \in Voices : ~(voices[i].isActive /\ voices[i].isReleasing)

\* A noteOff has just moved a voice from active to releasing.
C9_Witness ==
  /\ last.kind = "release"
  /\ voices[last.voice].isReleasing /\ ~voices[last.voice].isActive

\* C10: between operations a voice has note = none exactly when it is free
\* (neither active nor releasing).
C10_NoNoteIffFree ==
  \A i \in Voices : (voices[i].note = NoNote) <=> IsFree(voices[i])

\* A cleanup callback has just freed a voice while another one still sounds.
C10_Witness ==
  /\ last.kind = "cleanup"
  /\ voices[last.voice].note = NoNote /\ IsFree(voices[last.voice])
  /\ \E j \in Voices : voices[j].note # NoNote /\ IsSounding(voices[j])

(* noteOn steps *)

\* The voices that are not free.
NonFree(vs) == { i \in DOMAIN vs : IsSounding(vs[i]) }

\* Voice i alone changed, and it now sounds note n from this instant, active
\* and not releasing, with none of its cleanup callbacks pending.
Reused(i, n) ==
  /\ voices'[i].note = n
  /\ voices'[i].isActive /\ ~voices'[i].isReleasing
  /\ voices'[i].startTime = currentTime
  /\ \A t \in timeouts' : t.voice # i
  /\ \A j \in Voices \ {i} : voices'[j] = voices[j]

\* Voice i has the smallest startTime of the voices in S.
IsOldestIn(i, S) ==
  i \in S /\ \A j \in S : voices[i].startTime <= voices[j].startTime

ReleasingOnly == { i \in Voices : voices[i].isReleasing /\ ~voices[i].isActive }
ActiveOnly == { i \in Voices : voices[i].isActive /\ ~voices[i].isReleasing }

\* C2: when noteOn(n) finds no voice holding n and no free voice, the voice
\* it reuses has the smallest startTime among the releasing voices if there
\* is one, and otherwise the smallest startTime among the active voices.
C2_StealOrder ==
  [][\A n \in Notes :
       (/\ HoldersOf(voices, n) = {}
        /\ \A i \in Voices : ~IsFree(voices[i])
        /\ NoteOn(n, 100))
       => \E i \in Voices :
            /\ Reused(i, n)
            /\ IF ReleasingOnly # {} THEN IsOldestIn(i, ReleasingOnly)
               ELSE IsOldestIn(i, ActiveOnly)]_vars

\* A releasing voice has just been stolen while another voice was active.
C2_Witness ==
  /\ last.kind = "stealReleasing"
  /\ voices[last.voice].isActive
  /\ \E j \in Voices \ {last.voice} : voices[j].isActive

\* C4: if a sounding voice already holds n, noteOn(n) reuses that same slot
\* even when free voices exist; no other voice changes and the number of
\* non-free voices stays the same.
C4_RetriggerSameSlot ==
  [][\A n \in Notes :
       (HoldersOf(voices, n) # {} /\ NoteOn(n, 100))
       => \E i \in HoldersOf(voices, n) :
            /\ Reused(i, n)
            /\ HoldersOf(voices', n) = {i}
            /\ Cardinality(NonFree(voices')) = Cardinality(NonFree(voices))]_vars

\* A note has just been retriggered in its slot while a slot before it in
\* the pool was free.
C4_Witness ==
  /\ last.kind = "retrigger"
  /\ IsSounding(voices[last.voice])
  /\ \E j \in Voices : j < last.voice /\ IsFree(voices[j])

\* C5: when noteOn(n) is called while no voice holds n and some voice is
\* free, n goes to a free voice, every other voice and every pending timer
\* is left as it was, and one more voice sounds than before.
C5_FreeVoiceFrame ==
  [][\A n \in Notes :
       (/\ HoldersOf(voices, n) = {}
        /\ \E i \in Voices : IsFree(voices[i])
        /\ NoteOn(n, 100))
       => \E i \in Voices :
            /\ IsFree(voices[i])
            /\ Reused(i, n)
            /\ timeouts' = timeouts
            /\ NonFree(voices') = NonFree(voices) \cup {i}]_vars

\* A free voice has just been taken while another voice was releasing with
\* its cleanup callback pending.
C5_Witness ==
  /\ last.kind = "free"
  /\ voices[last.voice].isActive
  /\ \E t \in timeouts : t.voice # last.voice /\ voices[t.voice].isReleasing

\* Every pending callback belongs to a voice that is still releasing the
\* note the callback was scheduled for.
NoStaleTimer ==
  \A t \in timeouts :
    /\ voices[t.voice].isReleasing /\ ~voices[t.voice].isActive
    /\ voices[t.voice].note = t.note

\* C7: right after a noteOn the voice it assigned is the only holder of the
\* note, active and not releasing, with no cleanup callback pending; no
\* callback is ever pending for a voice that has been assigned since, and a
\* callback that runs stops only a voice still releasing the callback's note.
C7_NoStaleTimers ==
  /\ []NoStaleTimer
  /\ [][\A n \in Notes :
          NoteOn(n, 100)
          => \E i \in Voices :
               /\ HoldersOf(voices', n) = {i}
               /\ voices'[i].isActive /\ ~voices'[i].isReleasing
               /\ \A t \in timeouts' : t.voice # i]_vars
  /\ [][\A t \in timeouts :
          (TimerFire(t) /\ voices'[t.voice] # voices[t.voice])
          => /\ voices[t.voice].isReleasing /\ ~voices[t.voice].isActive
             /\ voices[t.voice].note = t.note]_vars

\* A noteOn has just retriggered a releasing voice and cancelled its pending
\* cleanup callback.
C7_Witness ==
  /\ last.kind = "retrigger" /\ last.cancelled
  /\ voices[last.voice].isActive /\ ~voices[last.voice].isReleasing
  /\ \A t \in timeouts : t.voice # last.voice

(* runs of noteOn *)

\* C3: in a run of noteOn calls on pairwise distinct pitches, for every k
\* above the polyphony limit the k-th noteOn takes the voice that holds the
\* (k - MAX_POLYPHONY)-th pitch of the run, also when calls read the same
\* clock value.
C3_OldestDiscarded ==
  [][\A n \in RunNotes :
       (/\ run # Impure /\ n \notin SeqToSet(run)
        /\ Len(run) >= MAX_POLYPHONY
        /\ NoteOn(n, 100))
       => \E i \in Voices :
            /\ voices[i].note = run[Len(run) + 1 - MAX_POLYPHONY]
            /\ IsSounding(voices[i])
            /\ voices'[i].note = n
            /\ \A j \in Voices \ {i} : voices'[j] = voices[j]]_vars

(* pitch wheel *)

\* C8: after setPitchBend(0) every live oscillator of every sounding voice
\* is at the unbent tuned frequency of the descriptor it was built from.
C8_BendZeroRestores ==
  [][SetPitchBend(0)
     => \A i \in Voices :
          (IsSounding(voices'[i]) /\ voices'[i].note # NoNote)
          => \A j \in DOMAIN voices'[i].oscillators :
               voices'[i].oscillators[j].frequency =
                 tunedFrequency(voices'[i].note,
                   currentParams.oscillators[voices'[i].oscillators[j].built])]_vars

(* release and cleanup *)

\* The callback of the noteOff that put voice i into release is pending and
\* not overdue.
ReleasePending(i) ==
  \E t \in timeouts :
    /\ t.voice = i /\ t.note = voices[i].note /\ t.first
    /\ currentTime <= t.due

\* The voice is free, holds no note, no component and no handle.
Cleaned(v) ==
  /\ ~v.isActive /\ ~v.isReleasing /\ v.note = NoNote
  /\ v.oscillators = << >> /\ ~v.noiseNode /\ ~v.noiseGainNode
  /\ v.scheduledStopTimeouts = << >>

C11_FullStopClearsNote ==
  [][Dispose
     => \A i \in Voices :
          /\ ~voices'[i].isActive /\ ~voices'[i].isReleasing
          /\ voices'[i].note = NoNote
          /\ voices'[i].velocity = 0
          /\ voices'[i].startTime = 0]_vars

\* C12: after dispose every voice has isActive = isReleasing = false, no
\* oscillator or noise component and no handle, no cleanup callback is
\* pending (so none scheduled before dispose can run afterwards), and the
\* LFO generator and both taps are absent and attached to nothing.
C12_DisposeStopsAll ==
  [][Dispose
     => /\ \A i \in Voices :
             /\ ~voices'[i].isActive /\ ~voices'[i].isReleasing
             /\ voices'[i].oscillators = << >>
             /\ ~voices'[i].noiseNode /\ ~voices'[i].noiseGainNode
             /\ voices'[i].scheduledStopTimeouts = << >>
             /\ ~voices'[i].lfoFilter
        /\ timeouts' = {}
        /\ ~lfo'.osc /\ ~lfo'.gainPitch /\ ~lfo'.gainFilter]_vars

\* dispose has just run with the LFO enabled and a cleanup callback pending:
\* the callback is gone and the LFO is absent.
C12_Witness ==
  /\ last.kind = "dispose" /\ last.cancelled
  /\ currentParams.lfo.enabled
  /\ timeouts = {} /\ ~lfo.osc
  /\ \A i \in Voices : IsFree(voices[i])

(* noteOff steps *)

\* The pending callbacks of voice i.
TimersOf(tm, i) == { t \in tm : t.voice = i }

\* C13: noteOff(n) leaves every sounding voice that holds n not active and
\* releasing, with one more cleanup callback scheduled for it and its note,
\* startTime and components (now told to stop) as they were; every voice
\* whose note is not n keeps its whole state and its pending callbacks; when
\* no voice holds n nothing changes.
C13_NoteOffFrame ==
  [][\A n \in Notes :
       NoteOff(n)
       => /\ \A i \in HoldersOf(voices, n) :
               /\ ~voices'[i].isActive /\ voices'[i].isReleasing
               /\ voices'[i].note = n
               /\ voices'[i].startTime = voices[i].startTime
               /\ DOMAIN voices'[i].oscillators = DOMAIN voices[i].oscillators
               /\ \A k \in DOMAIN voices[i].oscillators :
                    [voices'[i].oscillators[k] EXCEPT !.stop = << >>]
                      = [voices[i].oscillators[k] EXCEPT !.stop = << >>]
               /\ Len(voices'[i].scheduledStopTimeouts)
                    = Len(voices[i].scheduledStopTimeouts) + 1
               /\ \E t \in TimersOf(timeouts', i) :
                    t.note = n /\ t.due > currentTime
               /\ TimersOf(timeouts, i) \subseteq TimersOf(timeouts', i)
          /\ \A i \in Voices :
               voices[i].note # n
               => /\ voices'[i] = voices[i]
                  /\ TimersOf(timeouts', i) = TimersOf(timeouts, i)
          /\ HoldersOf(voices, n) = {}
               => UNCHANGED << voices, timeouts, currentParams,
                               pitchBendMultiplier, lfo, currentTime >>]_vars

\* A noteOff has just put a voice into release while another voice, holding
\* another note, was releasing with its callback pending.
C13_Witness ==
  /\ last.kind = "release"
  /\ voices[last.voice].isReleasing
  /\ \E j \in Voices \ {last.voice} :
       /\ voices[j].isReleasing /\ voices[j].note # voices[last.voice].note
       /\ TimersOf(timeouts, j) # {}

(* noteOn result *)

\* The descriptors that are enabled with a level other than 0.
Audible(params) ==
  { k \in DOMAIN params.oscillators :
      params.oscillators[k].enabled /\ params.oscillators[k].level # 0 }

\* C14: every noteOn(n, v) on a non-empty pool ends with exactly one voice
\* holding n; that voice is active, not releasing, has velocity v and
\* startTime equal to the clock, and has one oscillator component per
\* descriptor that is enabled with level not 0, in descriptor order (none at
\* all when there is no such descriptor).
C14_NoteOnResult ==
  [][\A n \in Notes, v \in Velocities :
       NoteOn(n, v)
       => \E i \in Voices :
            /\ { j \in Voices : voices'[j].note = n } = {i}
            /\ voices'[i].isActive /\ ~voices'[i].isReleasing
            /\ voices'[i].velocity = v
            /\ voices'[i].startTime = currentTime
            /\ Len(voices'[i].oscillators) = Cardinality(Audible(currentParams))
            /\ { voices'[i].oscillators[k].built :
                   k \in DOMAIN voices'[i].oscillators } = Audible(currentParams)
            /\ \A k \in DOMAIN voices'[i].oscillators :
                 voices'[i].oscillators[k].type
                   = currentParams.oscillators[voices'[i].oscillators[k].built].waveform]_vars

\* A noteOn at full velocity has just taken a slot without building any
\* oscillator component.
C14_Witness ==
  /\ last.kind \in {"free", "retrigger", "stealActive", "stealReleasing"}
  /\ voices[last.voice].isActive
  /\ voices[last.voice].velocity = 127
  /\ voices[last.voice].oscillators = << >>
  /\ Audible(currentParams) = {}

\* What noteOn leaves alone when it finds no voice.
NoteOnFrame ==
  UNCHANGED << voices, currentParams, pitchBendMultiplier, lfo, timeouts,
               currentTime >>

\* C15, as stated: with an empty pool, noteOn allocates nothing, schedules
\* nothing and leaves the whole engine state, the audio context included,
\* unchanged.
C15_EmptyPoolUnchanged ==
  [][\A n \in Notes, v \in Velocities :
       (DOMAIN voices = {} /\ NoteOn(n, v))
         => (NoteOnFrame /\ contextState' = contextState)]_vars

\* C15, amended: with an empty pool, noteOn allocates nothing, arms no timer
\* and leaves voices, parameters, bend, LFO and clock unchanged; the only
\* effect is the resume request it sends to a suspended context.
C15_EmptyPoolOnlyResumes ==
  [][\A n \in Notes, v \in Velocities :
       (DOMAIN voices = {} /\ NoteOn(n, v))
         => /\ NoteOnFrame
            /\ contextState' = IF contextState = "suspended"
                                THEN "resuming" ELSE contextState]_vars

C15_Witness ==
  /\ DOMAIN voices = {}
  /\ last.kind = "none"
  /\ contextState = "resuming"

\* The amplitude envelope of a note struck at clock value now.
AmpEnvelopeOf(velocity, env, now) ==
  << [kind |-> "set", value |-> 0, time |-> now],
     [kind |-> "ramp", value |-> 100 * velocity,
      time |-> now + Max(1, env.attack)],
     [kind |-> "ramp", value |-> env.sustain * velocity,
      time |-> now + Max(1, env.attack) + Max(1, env.decay)] >>

\* C16: after noteOn(n, v) at clock value now, the amplitude timeline of the
\* assigned voice holds, from now on, exactly: value 0 at now, a ramp to
\* v/127 ending at now + max(1 ms, attack), a ramp to sustain * v/127 ending
\* max(1 ms, decay) later; whatever was scheduled from now on is gone.
\* As a property of states: the amplitude timeline of a voice is that
\* sequence, anchored at the voice's start time, from the noteOn until the
\* next operation on the voice, less the events that have elapsed.
C16_AmpEnvelope ==
  \A i \in DOMAIN voices :
    voices[i].isActive =>
      voices[i].vcaGain
        = Pending(AmpEnvelopeOf(voices[i].velocity, currentParams.ampEnvelope,
                                voices[i].startTime),
                  currentTime)

\* A voice retriggered after some time, under the envelope whose attack and
\* decay are below the floor.
C16_Witness ==
  /\ last.kind = "retrigger"
  /\ currentTime > 0
  /\ currentParams.ampEnvelope.attack = 0
  /\ voices[last.voice].vcaGain
       = AmpEnvelopeOf(voices[last.voice].velocity,
                       currentParams.ampEnvelope, currentTime)

\* Generator and both taps exist, or none of them does, as the snapshot says.
LfoAsConfigured(l, params) ==
  /\ l.osc = params.lfo.enabled
  /\ l.gainPitch = params.lfo.enabled
  /\ l.gainFilter = params.lfo.enabled

\* C17: after the constructor and after every updateParams the LFO generator
\* and its two taps all exist or are all absent, and they exist exactly when
\* lfo.enabled is true in the current snapshot.
C17_LfoAllOrNone ==
  /\ LfoAsConfigured(lfo, currentParams)
  /\ [][\A p \in LfoParams, stale \in BOOLEAN :
          UpdateParams(p, stale) => LfoAsConfigured(lfo', currentParams')]_vars

\* The LFO has just been switched off while a voice was sounding with it.
C17_Witness ==
  /\ ~currentParams.lfo.enabled
  /\ lfo = NoLfo
  /\ \E i \in Voices : voices[i].isActive /\ voices[i].startTime < currentTime

\* C18: once stopVoice has run on a voice, no LFO tap is connected to the
\* detune of an oscillator the voice held when stopVoice was entered, nor to
\* the voice's filter frequency (until a later noteOn connects the filter tap
\* again).
C18_NoTapAfterStop ==
  \A i \in Voices :
    /\ ~voices[i].droppedLfoPitch
    /\ IsFree(voices[i]) => ~voices[i].lfoFilter

\* The last event of a timeline that is not empty.
LastEvent(param) == param[Len(param)]

\* C19: under a snapshot with keyboard tracking > 0, the cutoff noteOff(n)
\* ramps the filter to, and the cutoff a hard stop snaps it to, is the
\* keyboard-tracked base cutoff noteOn(n) pinned, for every note n.
C19_ReleaseToPinnedCutoff ==
  /\ [][\A n \in Notes :
          (currentParams.filter.keyboardTracking > 0 /\ NoteOff(n))
          => \A i \in HoldersOf(voices, n) :
               /\ LastEvent(voices'[i].filterFrequency).kind = "ramp"
               /\ LastEvent(voices'[i].filterFrequency).value
                    = TrackedCutoff(currentParams, n)]_vars
  /\ [][(currentParams.filter.keyboardTracking > 0 /\ Dispose)
        => \A i \in Voices :
             voices[i].note # NoNote
             => LastEvent(voices'[i].filterFrequency)
                  = [kind |-> "set", time |-> currentTime,
                     value |-> TrackedCutoff(currentParams, voices[i].note)]]_vars

\* The same for the notes other than 0.
C19_ExceptNoteZero ==
  /\ [][\A n \in Notes \ {0} :
          (currentParams.filter.keyboardTracking > 0 /\ NoteOff(n))
          => \A i \in HoldersOf(voices, n) :
               /\ LastEvent(voices'[i].filterFrequency).kind = "ramp"
               /\ LastEvent(voices'[i].filterFrequency).value
                    = TrackedCutoff(currentParams, n)]_vars
  /\ [][(currentParams.filter.keyboardTracking > 0 /\ Dispose)
        => \A i \in Voices :
             voices[i].note \in Notes \ {0}
             => LastEvent(voices'[i].filterFrequency)
                  = [kind |-> "set", time |-> currentTime,
                     value |-> TrackedCutoff(currentParams, voices[i].note)]]_vars

\* C20: when a cleanup callback frees a voice, the release ramp most
\* recently scheduled on the voice's gain has reached its end and the stop
\* time most recently given to its generators has come, whatever noteOff and
\* updateParams calls came before.
C20_FreedAfterRelease ==
  [][\A t \in timeouts :
       (CleanupGuard(voices[t.voice], t.note) /\ TimerFire(t))
       => /\ \A k \in DOMAIN voices[t.voice].vcaGain :
               voices[t.voice].vcaGain[k].time <= currentTime
          /\ \A k \in DOMAIN voices[t.voice].oscillators :
               \A j \in DOMAIN voices[t.voice].oscillators[k].stop :
                 voices[t.voice].oscillators[k].stop[j] <= currentTime
          /\ \A j \in DOMAIN voices[t.voice].noiseStop :
               voices[t.voice].noiseStop[j] <= currentTime]_vars

\* The same for a voice that was told to release once only.
C20_SingleNoteOff ==
  [][\A t \in timeouts :
       (/\ CleanupGuard(voices[t.voice], t.note)
        /\ Len(voices[t.voice].scheduledStopTimeouts) = 1
        /\ TimerFire(t))
       => /\ \A k \in DOMAIN voices[t.voice].vcaGain :
               voices[t.voice].vcaGain[k].time <= currentTime
          /\ \A k \in DOMAIN voices[t.voice].oscillators :
               \A j \in DOMAIN voices[t.voice].oscillators[k].stop :
                 voices[t.voice].oscillators[k].stop[j] <= currentTime]_vars

(* order of the calls within noteOn *)

\* The calls noteOn(n, _) makes in the current state.
CallsOfNoteOn(n) ==
  LET found == findVoiceForNoteOn(voices, n)
  IN noteOnCalls(voices[found.voice], found.kind \in StopKinds, currentParams,
                 lfo, NoFault)

\* Calls c and d are on the same node.
SameNode(c, d) == c.kind = d.kind /\ c.k = d.k /\ c.gen = d.gen

\* Call c connects the node of call d, as source or as destination.
Connects(c, d) ==
  /\ c.call = "connect"
  /\ c.k = d.k
  /\ ((c.kind = d.kind /\ c.gen = d.gen) \/ (c.to = d.kind /\ d.gen = "new"))

\* C21: within one noteOn call every node it creates is created before it is
\* connected, and connected before any automation is scheduled on one of its
\* parameters.
C21_CreateConnectSchedule ==
  [][\A n \in Notes :
       NoteOn(n, 100)
       => LET cs == CallsOfNoteOn(n)
          IN \A a \in DOMAIN cs :
               cs[a].call = "create"
               => /\ \E b \in DOMAIN cs : Connects(cs[b], cs[a])
                  /\ \A b \in DOMAIN cs : Connects(cs[b], cs[a]) => a < b
                  /\ \A c \in DOMAIN cs :
                       (cs[c].call = "schedule" /\ SameNode(cs[c], cs[a]))
                       => \E b \in DOMAIN cs :
                            b < c /\ Connects(cs[b], cs[a])]_vars

\* What does hold: every node noteOn creates is created before any other
\* call on it, and is connected after that.
C21_CreatedFirst ==
  [][\A n \in Notes :
       NoteOn(n, 100)
       => LET cs == CallsOfNoteOn(n)
          IN \A a \in DOMAIN cs :
               cs[a].call = "create"
               => /\ \E b \in DOMAIN cs : Connects(cs[b], cs[a])
                  /\ \A b \in DOMAIN cs :
                       (Connects(cs[b], cs[a]) \/ SameNode(cs[b], cs[a]))
                       => a <= b]_vars

\* Among the calls cs, the outputs of the old node (kind, k) are disconnected
\* and, when the voice holds a reference to it, the reference is dropped,
\* before any node is created.
GoneBeforeCreate(cs, kind, k, held) ==
  LET creates == { c \in DOMAIN cs : cs[c].call = "create" }
  IN /\ \E a \in DOMAIN cs :
          /\ cs[a] = Call("disconnect", kind, k, "old", "")
          /\ \A c \in creates : a < c
     /\ held => \E b \in DOMAIN cs :
                  /\ cs[b] = Call("drop", kind, k, "old", "")
                  /\ \A c \in creates : b < c

StoppedRecord(r) ==
  /\ ~r.isActive /\ ~r.isReleasing
  /\ r.oscillators = << >> /\ ~r.noiseNode /\ ~r.noiseGainNode
  /\ r.scheduledStopTimeouts = << >>

\* What the last stopVoice has left of the voice it ran on: after a cleanup
\* callback no flag, no component and no pending callback; after the hard
\* stop of the allocator, and the assignment that follows it, no pending
\* callback and the components of the new note only.
LastStopClean ==
  /\ last.kind = "cleanup"
       => /\ StoppedRecord(voices[last.voice])
          /\ TimersOf(timeouts, last.voice) = {}
  /\ last.kind \in StopKinds
       => /\ TimersOf(timeouts, last.voice) = {}
          /\ voices[last.voice].scheduledStopTimeouts = << >>
          /\ Len(voices[last.voice].oscillators)
               = Len(BuiltDescriptors(currentParams))

\* C23: when the backend throws while stopVoice stops or disconnects one
\* component, stopVoice still completes and leaves the voice's pending
\* callbacks cancelled, isActive = isReleasing = false, no component held,
\* and every component it held disconnected from the voice's filter; for the
\* hard stop of the allocator and for the soft stop of the cleanup callback.
C23_StopVoiceSurvivesFault ==
  /\ LastStopClean
  /\ \A i \in Voices : ~voices[i].droppedConnected

\* What does hold: the callbacks are cancelled, the flags cleared and the
\* components dropped from the voice, whichever call throws.
C23_StoppedDespiteFault == LastStopClean

(* the allocator's defensive branches *)

\* C24: in every state reachable through noteOn, noteOff, setPitchBend,
\* updateParams, dispose and timer firings on a non-empty pool, the allocator
\* reaches neither its fallback steal nor its final null return, for any
\* note: whenever no voice is free and none holds the note, a releasing-only
\* or an active-only voice exists; and no noteOn has taken either branch.
C24_NoFallback ==
  /\ last.kind \notin {"fallback", "none"}
  /\ \A n \in Notes :
       /\ findVoiceForNoteOn(voices, n).kind \notin {"fallback", "none"}
       /\ (FreeCandidates(voices) = {} /\ RetriggerCandidates(voices, n) = {})
            => (ReleasingCandidates(voices) # {} \/ ActiveCandidates(voices) # {})

\* After a dispose the pool has been filled again and an active voice has
\* just been stolen.
C24_Witness ==
  /\ last.kind = "stealActive"
  /\ contextState = "closed"
  /\ FreeCandidates(voices) = {}

(* LFO taps after updateParams *)

\* Voice v has the filter tap on its filter frequency exactly when `flt`, the
\* pitch tap on the detune of each of its oscillators exactly when `pitch`,
\* and no tap on an oscillator it has dropped.
TapsAre(v, pitch, flt) ==
  /\ v.lfoFilter = flt
  /\ \A k \in DOMAIN v.oscillators : v.oscillators[k].lfoPitch = pitch
  /\ ~v.droppedLfoPitch

\* C25: after an updateParams call that changed an LFO field, the filter tap
\* is connected to a voice's filter frequency exactly when the LFO is enabled,
\* the filter depth is > 0 and the voice is active and not releasing, and the
\* pitch tap to the voice's oscillators exactly when the LFO is enabled, the
\* pitch depth is > 0 and the voice is active and not releasing; releasing
\* (and free) voices are left with no tap.
C25_TapsFollowSnapshot ==
  [][\A p \in TapParams, stale \in BOOLEAN :
       (LfoConfigChanged(currentParams, p) /\ UpdateParams(p, stale))
       => \A i \in Voices :
            LET on == voices'[i].isActive /\ ~voices'[i].isReleasing
            IN TapsAre(voices'[i],
                       p.lfo.enabled /\ p.lfo.pitchAmount > 0 /\ on,
                       p.lfo.enabled /\ p.lfo.filterAmount > 0 /\ on)]_vars

\* Under the LFO on the filter alone, an active voice has the filter tap and
\* no pitch tap while a releasing voice has no tap: the LFO was changed after
\* that voice was released.
C25_Witness ==
  /\ currentParams = LfoFilter
  /\ \E i \in Voices :
       /\ voices[i].isActive /\ voices[i].oscillators # << >>
       /\ TapsAre(voices[i], FALSE, TRUE)
  /\ \E j \in Voices :
       /\ voices[j].isReleasing /\ voices[j].oscillators # << >>
       /\ TapsAre(voices[j], FALSE, FALSE)

\* C26: after an updateParams call whose snapshot has lfo.enabled = false,
\* no LFO tap is connected to any parameter of any voice, active, releasing
\* or free, nor to an oscillator a voice has dropped, whatever was connected
\* before.  As a property of states: while the current snapshot has the LFO
\* disabled, no tap is connected anywhere.
C26_NoTapWhenDisabled ==
  ~currentParams.lfo.enabled
    => /\ \A i \in Voices : TapsAre(voices[i], FALSE, FALSE)
       /\ ~lfo.gainPitch /\ ~lfo.gainFilter

\* updateParams has disabled the LFO while one voice was active and another
\* releasing, both with oscillators.
C26_Witness ==
  /\ currentParams = LfoOff
  /\ lfo = NoLfo
  /\ \E i, j \in Voices :
       /\ voices[i].isActive /\ voices[i].oscillators # << >>
       /\ voices[j].isReleasing /\ voices[j].oscillators # << >>

(* timelines after noteOn *)

\* The filter envelope of note n struck at clock value now: pin, attack
\* ramp, decay ramp.
FilterEnvelopeOf(n, params, now) ==
  << [kind |-> "set", value |-> filterBaseCutoff(params, n), time |-> now],
     [kind |-> "ramp", value |-> filterAttackTarget(params, n),
      time |-> now + Max(1, params.filterEnvelope.attack)],
     [kind |-> "ramp", value |-> filterSustainTarget(params, n),
      time |-> now + Max(1, params.filterEnvelope.attack)
                   + Max(1, params.filterEnvelope.decay)] >>

\* C27: right after noteOn the amplitude and the filter-frequency timeline of
\* the assigned voice hold, from the call's clock value on, the three events
\* of the new note only (pin, attack ramp, decay ramp): nothing scheduled by
\* an earlier note, release or hard stop on the voice is pending.  As a
\* property of states: from its noteOn until the next operation on it, the
\* two timelines of a voice are those sequences anchored at its start time,
\* less the events that have elapsed.
C27_OnlyNewEvents ==
  \A i \in DOMAIN voices :
    voices[i].isActive =>
      /\ voices[i].vcaGain
           = Pending(AmpEnvelopeOf(voices[i].velocity, currentParams.ampEnvelope,
                                   voices[i].startTime),
                     currentTime)
      /\ voices[i].filterFrequency
           = Pending(FilterEnvelopeOf(voices[i].note, currentParams,
                                      voices[i].startTime),
                     currentTime)

\* A voice has just been stolen in the clock reading of its noteOff, with
\* its release ramps and its cleanup callback pending, and holds the three
\* events of the new note on each timeline.
C27_Witness ==
  /\ last.kind = "stealReleasing" /\ last.cancelled
  /\ currentTime > 0
  /\ Len(voices[last.voice].vcaGain) = 3
  /\ voices[last.voice].filterFrequency
       = FilterEnvelopeOf(voices[last.voice].note, currentParams, currentTime)

(* the soft stop and the two parameters *)

\* C28: the cleanup a release callback performs (stopVoice with hardStop =
\* false) cancels nothing and schedules nothing on the amplitude and the
\* filter-frequency parameter of any voice, whether the callback stops its
\* voice or skips it and whatever call the backend answers by throwing.
C28_SoftStopWritesNoParam ==
  [][\A t \in timeouts : \A f \in Faults \cup { NoFault } :
        TimerFireWith(t, f) =>
          \A i \in DOMAIN voices :
            /\ voices'[i].vcaGain = voices[i].vcaGain
            /\ voices'[i].filterFrequency = voices[i].filterFrequency]_vars

\* A callback has just freed a voice whose release ramps, scheduled by a
\* later noteOff, are still pending on both parameters.
C28_Witness ==
  /\ last.kind = "cleanup"
  /\ IsFree(voices[last.voice])
  /\ voices[last.voice].vcaGain # << >>
  /\ voices[last.voice].filterFrequency # << >>

(* the frame of updateParams *)

\* The component list of a voice, without the connections of the LFO taps.
Components(v) ==
  << [k \in DOMAIN v.oscillators |-> [v.oscillators[k] EXCEPT !.lfoPitch = FALSE]],
     v.noiseNode, v.noiseGainNode >>

InCutoffRange(f) == MinCutoffHz * 100 <= f /\ f <= (SampleRate \div 2) * 100

\* C30: for every noteOn and every snapshot, the base cutoff pinned at
\* note-on, the peak and the sustain target of the filter envelope lie in
\* [20 Hz, half the sample rate].  As a property of states: every event on
\* the filter-frequency timeline of a voice that is held has its value in
\* that range.
C30_CutoffsInRange ==
  \A i \in DOMAIN voices :
    (voices[i].isActive /\ ~voices[i].isReleasing) =>
      \A k \in DOMAIN voices[i].filterFrequency :
        InCutoffRange(voices[i].filterFrequency[k].value)

\* What holds of C30: the peak and the sustain target are always in the
\* range, and the pinned base is in the range unless it is the cutoff of a
\* snapshot whose keyboard tracking is 0, which is pinned as given.
C30_TargetsInRange ==
  \A i \in DOMAIN voices :
    (voices[i].isActive /\ ~voices[i].isReleasing) =>
      \A k \in DOMAIN voices[i].filterFrequency :
        LET e == voices[i].filterFrequency[k]
        IN \/ InCutoffRange(e.value)
           \/ /\ e.kind = "set"
              /\ \E p \in CutoffParams :
                    /\ p.filter.keyboardTracking = 0
                    /\ e.value = p.filter.cutoff * 100

(* the pitch wheel and new notes *)

\* C31: setPitchBend(v) sets the engine's multiplier to 2^(2v/12); every
\* oscillator a later noteOn creates starts at its tuned frequency times the
\* multiplier; and no step other than setPitchBend (noteOn, noteOff,
\* updateParams, a callback, the clock) changes the multiplier.
C31_NewNotesBent ==
  [][/\ \A b \in {-1, 0, 1} :
          SetPitchBend(b) => pitchBendMultiplier' = BendMultiplier(b)
     /\ pitchBendMultiplier' # pitchBendMultiplier
          => \E b \in {-1, 0, 1} : SetPitchBend(b)
     /\ \A n \in FaultNotes :
          NoteOn(n, 100) =>
            LET v == voices'[last'.voice]
            IN /\ last'.voice # NoVoice
               /\ Len(v.oscillators) = Len(BuiltDescriptors(currentParams))
               /\ \A j \in DOMAIN v.oscillators :
                    v.oscillators[j].frequency
                      = tunedFrequency(n, currentParams.oscillators[v.oscillators[j].built])
                        + pitchBendMultiplier]_vars

\* With the wheel up, a note has just been struck while the first descriptor
\* is at level 0: its one oscillator, built from the second descriptor,
\* sounds two semitones above its tuned frequency.
C31_Witness ==
  /\ pitchBendMultiplier = BendMultiplier(1)
  /\ currentParams = Osc1Silent
  /\ last.kind = "free" /\ currentTime > 0
  /\ LET v == voices[last.voice]
     IN /\ v.isActive
        /\ Len(v.oscillators) = 1
        /\ v.oscillators[1].built = 2
        /\ v.oscillators[1].frequency
             = tunedFrequency(v.note, currentParams.oscillators[2]) + 20000

(* timers and the releasing flag *)

\* C32: between operations a voice has a pending cleanup callback exactly
\* when it is releasing: an active or a free voice has none (and holds no
\* handle), and a releasing voice has one, scheduled for the note it holds,
\* whose guard will therefore hold when it runs.
C32_TimerIffReleasing ==
  \A i \in DOMAIN voices :
    /\ (TimersOf(timeouts, i) # {}) <=> voices[i].isReleasing
    /\ (voices[i].scheduledStopTimeouts # << >>) <=> voices[i].isReleasing
    /\ voices[i].isReleasing
         => \E t \in TimersOf(timeouts, i) : CleanupGuard(voices[i], t.note)

\* One voice is releasing with its callback pending while another, just
\* freed by its callback, has none.
C32_Witness ==
  /\ last.kind = "cleanup" /\ IsFree(voices[last.voice])
  /\ TimersOf(timeouts, last.voice) = {}
  /\ \E i \in DOMAIN voices :
        /\ voices[i].isReleasing /\ TimersOf(timeouts, i) # {}

\* C33: whenever a cleanup callback runs its guard holds: the voice it was
\* scheduled for is still releasing the callback's note, so the callback
\* frees the voice and never finds a voice that has been reused since.
C33_GuardHoldsWhenFired ==
  [][\A t \in timeouts :
        (t.due <= currentTime /\ TimerFire(t)) =>
          /\ CleanupGuard(voices[t.voice], t.note)
          /\ voices[t.voice].isReleasing /\ voices[t.voice].note = t.note
          /\ IsFree(voices'[t.voice])
          /\ last'.kind = "cleanup"]_vars

\* A callback has just freed a voice that was told to release twice; the
\* callback of the second noteOff went with it.
C33_Witness ==
  /\ last.kind = "cleanup" /\ IsFree(voices[last.voice])
  /\ voices[last.voice].vcaGain # << >>
  /\ \A t \in timeouts : t.voice # last.voice
  /\ \E j \in DOMAIN voices : voices[j].isActive

(* what a free voice holds *)

\* C34: between operations a free voice (neither active nor releasing) holds
\* no oscillator component, no noise source and no noise gain, so a noteOn
\* that takes it, with the noise on or off, makes no call on a noise node
\* left from an earlier note.
C34_FreeVoiceHoldsNothing ==
  \A i \in DOMAIN voices :
    IsFree(voices[i]) =>
      /\ voices[i].oscillators = << >>
      /\ ~voices[i].noiseNode /\ ~voices[i].noiseGainNode
      /\ \A p \in { NoisyDry, ShortRelease } :
           \A k \in DOMAIN NoiseCalls(voices[i], p) :
             NoiseCalls(voices[i], p)[k].gen # "old"

\* A callback has just freed a voice that sounded with the noise on, a call
\* of its teardown having thrown, while another voice still sounds.
C34_Witness ==
  /\ last.kind = "cleanup" /\ IsFree(voices[last.voice])
  /\ currentParams.noise.enabled
  /\ voices[last.voice].droppedConnected
  /\ \E j \in DOMAIN voices : voices[j].isActive /\ voices[j].noiseNode

(* the slot allocation chooses *)

\* Slot i comes first in C: no slot of C has a smaller start time, and none
\* with the same start time has a lower index.
FirstOldest(i, C) ==
  /\ i \in C
  /\ \A j \in C :
       \/ voices[i].startTime < voices[j].startTime
       \/ (voices[i].startTime = voices[j].startTime /\ i <= j)

\* C35: the slot noteOn(n) takes is determined by the voice table and n: the
\* slot that holds n if one does; else the free slot of lowest index; else,
\* among the releasing voices if there are any and among the active ones
\* otherwise, the one of smallest start time and, among equal start times,
\* of lowest index.
C35_SlotDetermined ==
  [][\A n \in Notes :
       NoteOn(n, 100) =>
         LET i == last'.voice
             free == { j \in Voices : IsFree(voices[j]) }
         IN IF HoldersOf(voices, n) # {}
              THEN \A j \in HoldersOf(voices, n) : i <= j
            ELSE IF free # {}
              THEN i \in free /\ \A j \in free : i <= j
            ELSE IF ReleasingOnly # {}
              THEN FirstOldest(i, ReleasingOnly)
            ELSE FirstOldest(i, ActiveOnly)]_vars

\* A noteOn has just stolen slot 0 from a full pool of active voices before
\* the clock first moved: every voice had the same start time.
C35_Witness ==
  /\ last.kind = "stealActive" /\ last.voice = 0
  /\ currentTime = 0
  /\ \A j \in Voices : voices[j].isActive /\ voices[j].startTime = 0

(* MIDI input *)

\* C36: the service never passes a note-on event with velocity 0 to its
\* note callback: a note-on message with velocity 0 is passed on as a
\* note-off for the same note and the engine's noteOff runs; a note-on that
\* is passed on has a velocity in 1..127, and so has every voice the
\* engine's noteOn has assigned.
C36_NoNoteOnAtVelocityZero ==
  /\ [](\A i \in DOMAIN voices :
          voices[i].isActive => voices[i].velocity \in 1 .. 127)
  /\ [][\A p \in onmidimessage : \A data \in MidiNoteMessages :
          ((data[1] \div 16) * 16 = MIDI_NOTE_ON /\ MidiMessage(p, data)) =>
            LET m == handleMidiMessage(data)
            IN /\ m.callback = "onNoteEvent" /\ m.note = data[2]
               /\ IF data[3] = 0
                  THEN /\ m.command = MIDI_NOTE_OFF
                       /\ \A i \in DOMAIN voices :
                            voices[i].note = data[2] => ~voices'[i].isActive
                  ELSE /\ m.command = MIDI_NOTE_ON
                       /\ m.velocity = data[3] /\ m.velocity \in 1 .. 127]_vars

\* A voice struck at velocity 127 from the selected port has been put into
\* release, and another, struck at velocity 127 as well, is held.
C36_Witness ==
  /\ activeInput # NoInput /\ activeInput \in onmidimessage
  /\ last.kind = "release"
  /\ voices[last.voice].isReleasing /\ voices[last.voice].velocity = 127
  /\ \E j \in DOMAIN voices : voices[j].isActive /\ voices[j].velocity = 127

\* The selected input, when there is one, carries the service's handler.
ActiveInputListens ==
  activeInput # NoInput => activeInput \in onmidimessage

\* selectDevice(d) fails for want of the device: access was granted and d is
\* the id of no input.
NotFound(d) == midiAccess /\ d # NoInput /\ d \notin SeqToSet(inputs)

\* C37: when selectDevice returns false because the device id is not found,
\* the selection is as before (getActiveDeviceId reports the same input) and
\* that input still carries the service's handler; and in every state the
\* selected input, when there is one, carries the handler.
C37_FailedSelectKeepsListener ==
  /\ []ActiveInputListens
  /\ [][\A d \in Ports :
          (NotFound(d) /\ SelectDevice(d)) =>
            /\ activeInput' = activeInput
            /\ activeInput # NoInput => activeInput \in onmidimessage']_vars

\* What holds of C37: a selectDevice that fails leaves the selection as it
\* was, and the handler is on no port other than the selected one.
C37_SelectionKept ==
  /\ [](onmidimessage \subseteq { activeInput } \ { NoInput })
  /\ [][\A d \in Ports :
          ((~midiAccess \/ NotFound(d)) /\ SelectDevice(d)) =>
            /\ activeInput' = activeInput
            /\ UNCHANGED << midiAccess, inputs, connected >>]_vars

====
